---- MODULE Spec2Model ----
(***************************************************************************)
(* A state-machine model of the ModuloX coordination layer:                *)
(*   - the circuit breaker   (pkg/reliability/circuit_breaker.go)          *)
(*   - the versioned state store, the message bus (pkg/communication)      *)
(*   - the cluster registry and scheduler (pkg/distributed)                *)
(*   - the event system, Retry, the rate limiter, the sequential workflow  *)
(*   - the mixture workflow, StateStore.Watch, AgentServer.SyncState,      *)
(*     the heartbeat monitor                                               *)
(* Each component has its own specification (SpecCB, SpecStore, ...) over  *)
(* the variables of that component; the other variables stay as            *)
(* constructed.                                                            *)
(***************************************************************************)
EXTENDS Integers, Sequences, FiniteSets, TLC

VARIABLES
    \* ---- CircuitBreaker fields (circuit_breaker.go:18-25)
    state, failureCount, failureThreshold, resetTimeout, lastFailure,
    \* ---- wall clock read by time.Now / time.Since
    now,
    \* ---- the callers of the circuit breaker: position, operation in
    \* ---- progress, fn's outcome, value returned, fn invocations of the call
    pc, op, err, ret, fnCalls,
    \* ---- history: number of RecordResult calls completed and the outcome
    \* ---- of the last one
    records, lastRecorded,
    \* ---- StateStore.states (unnamed/part_007:17-20), the result of the last
    \* ---- Get, and the history of completed Set calls per key
    states, got, setCount,
    \* ---- MessageBus.subscribers (unnamed/part_009:21-24): per topic the
    \* ---- channels in subscription order; the channels' buffers and whether
    \* ---- they are closed, indexed by channel
    subscribers, chanBuf, chanClosed,
    \* ---- the Publish calls in progress: position, topic, message, the
    \* ---- subscriber slice read under the lock, loop index, returned error,
    \* ---- whether the call's context is cancelled
    pubPc, pubTopic, pubMsg, pubSnap, pubIdx, pubRet, ctxDone,
    \* ---- a goroutine panicked: the process is gone
    panicked,
    \* ---- history: messages received per channel, id of the next message,
    \* ---- per message its topic and the Publish calls that had returned when
    \* ---- its own began, and the messages whose Publish has returned
    recvLog, nextMsg, msgMeta, completed,
    \* ---- Cluster.nodes (cluster.go:21-26): node id -> node
    nodes,
    \* ---- Node fields (node.go:23-32), per node object; agents holds the
    \* ---- names under which agents are registered
    load, status, agents, lastPing,
    \* ---- number of PublishEvent calls made through the agent clients, per
    \* ---- event type
    published,
    \* ---- the last RegisterNode or RegisterAgent call to return and its
    \* ---- result; the number of RegisterNode calls that inserted, per node
    \* ---- id; the number of RegisterAgent calls
    regRet, inserts, agentRegs,
    \* ---- the ScheduleTask call in progress: position, requirements, the
    \* ---- node ids findSuitableNode has yet to visit, its locals bestNode
    \* ---- and lowestLoad, the node dispatched to, the value returned
    schedPc, requirements, toVisit, bestNode, lowestLoad, schedRet,
    \* ---- history: what findSuitableNode read of each node it visited, the
    \* ---- number of ScheduleTask calls and of agent invocations
    observed, tasks, agentCalls,
    \* ---- EventSystem.handlers (unnamed/part_008:19-22): per event type the
    \* ---- handler registrations in order; the EmitEvent call in progress: position,
    \* ---- event type, the handler slice read under the lock, the state of the
    \* ---- goroutine of each, the buffered error channel, the value returned;
    \* ---- history: invocations and outcome per registration in the current call,
    \* ---- the registrations when the call began, the number of EmitEvent calls
    handlers, emitPc, emitType, emitSnap, hState, errCh, emitRet,
    calls, hResult, regAtStart, emits,
    \* ---- the Retry call (unnamed/part_005:29-59): its RetryConfig, position,
    \* ---- the locals attempt, delay and err, the value returned, whether its
    \* ---- context is cancelled; history: fn's outcome per invocation, the backoff
    \* ---- waits that ran to their end, where the call was when it was cancelled
    retryConfig, retryPc, attempt, delay, retryErr, retryRet, retryCtxDone,
    attemptErrs, waits, cancelledIn,
    \* ---- RateLimiter fields (rate_limiter.go:10-16): rate in tenths of a token
    \* ---- per second, tokens in hundredths of a token, and the time since
    \* ---- lastRefill in ticks; the result and the number of the Allow calls made
    \* ---- directly, and how many of them came before any time had passed; the
    \* ---- WaitN call: position, its n, value returned, whether its context is
    \* ---- cancelled, ticks of sleep left; history: the n asked for and the tokens
    \* ---- WaitN has consumed
    rate, bucketSize, tokens, elapsed, allowRet, allowCount, immediate,
    wnPc, wnN, wnRet, wnCtxDone, sleepLeft, wnRequested, wnGranted,
    \* ---- SequentialWorkflow.agents (unnamed/part_003:23-26) and its Execute
    \* ---- call: position, loop index, the locals task and finalResult, the values
    \* ---- returned, whether the context is cancelled; history: the task Execute was
    \* ---- called with, the agents invoked with their inputs, whether one failed
    wfAgents, wfPc, wfIdx, wfTask, finalResult, wfRet, wfCtxDone,
    wfInput, invocations, wfFailed, execErr,
    \* ---- MixtureWorkflow (unnamed/part_003): the member agents, the position of
    \* ---- Execute, its task and context, each member goroutine's position, the
    \* ---- results slice, the errors channel, what Execute returned;
    \* ---- history: the events handed to PublishEvent, what each member's agent
    \* ---- returned, the member and aggregator invocations
    mxAgents, mxPc, mxTask, mxCtxDone, mPc, results, errors, mxRet,
    mxEvents, memberErr, mxInvocations, aggregatorCalls,
    \* ---- StateStore.Watch (unnamed/part_007): the position of the watch goroutine,
    \* ---- the key watched, the updates channel and whether it is closed, the
    \* ---- goroutine's lastVersion and the entry it is about to send, whether the
    \* ---- context is cancelled; history: the entries sent on the channel, the entry
    \* ---- Watch found when it was called
    watchPc, watchKey, updates, closed, lastVersion, watchEntry, watchCtxDone,
    emitted, initialEntry,
    \* ---- AgentServer.SyncState (unnamed/part_006): the position of each
    \* ---- caller's call, its request, its response; history: the version each
    \* ---- call's own Set assigned, the key and version of every response
    syncPc, syncReq, syncRet, written, syncLog,
    \* ---- Cluster.monitorHeartbeats (cluster.go): whether the monitor is between
    \* ---- ticks or in one, the nodes its range has still to visit, the node it
    \* ---- has found timed out and is about to mark, the number of ticks;
    \* ---- history: the time since lastPing it found for each node of this tick
    \* ---- and the node_unhealthy events it published for each in this tick
    monPc, monToVisit, monCur, monTicks, monSeen, monMarked,
    \* ---- Cluster.Close: the client connections are closed, what Close returned
    connClosed, closeRet

cbVars == <<state, failureCount, failureThreshold, resetTimeout, lastFailure,
            pc, op, err, ret, fnCalls, records, lastRecorded>>
storeVars == <<states, got, setCount>>
busVars == <<subscribers, chanBuf, chanClosed, pubPc, pubTopic, pubMsg, pubSnap,
             pubIdx, pubRet, ctxDone, panicked, recvLog, nextMsg, msgMeta,
             completed>>

clusterVars == <<nodes, load, status, agents, lastPing, published, regRet,
                 inserts, agentRegs, schedPc, requirements, toVisit,
                 bestNode, lowestLoad, schedRet, observed, tasks, agentCalls>>

eventsVars == <<handlers, emitPc, emitType, emitSnap, hState, errCh, emitRet,
       calls, hResult, regAtStart, emits>>

retryVars == <<retryConfig, retryPc, attempt, delay, retryErr, retryRet, retryCtxDone,
       attemptErrs, waits, cancelledIn>>

limiterVars == <<rate, bucketSize, tokens, elapsed, allowRet, allowCount, immediate,
       wnPc, wnN, wnRet, wnCtxDone, sleepLeft, wnRequested, wnGranted>>

workflowVars == <<wfAgents, wfPc, wfIdx, wfTask, finalResult, wfRet, wfCtxDone,
       wfInput, invocations, wfFailed, execErr>>

mixtureVars == <<mxAgents, mxPc, mxTask, mxCtxDone, mPc, results, errors, mxRet,
       mxEvents, memberErr, mxInvocations, aggregatorCalls>>

watchVars == <<watchPc, watchKey, updates, closed, lastVersion, watchEntry, watchCtxDone,
       emitted, initialEntry>>

syncVars == <<syncPc, syncReq, syncRet, written, syncLog>>

monitorVars == <<monPc, monToVisit, monCur, monTicks, monSeen, monMarked>>

shutdownVars == <<connClosed, closeRet>>

vars == <<now, cbVars, storeVars, busVars, clusterVars, eventsVars, retryVars, limiterVars, workflowVars, mixtureVars, watchVars, syncVars, monitorVars, shutdownVars>>

\* the variables outside each component
nonCB == <<storeVars, busVars, clusterVars, eventsVars, retryVars, limiterVars, workflowVars, mixtureVars, watchVars, syncVars, monitorVars, shutdownVars>>
nonStore == <<cbVars, busVars, clusterVars, eventsVars, retryVars, limiterVars, workflowVars, mixtureVars, watchVars, syncVars, monitorVars, shutdownVars>>
nonBus == <<now, cbVars, storeVars, clusterVars, eventsVars, retryVars, limiterVars, workflowVars, mixtureVars, watchVars, syncVars, monitorVars, shutdownVars>>
nonCluster == <<now, cbVars, storeVars, busVars, eventsVars, retryVars, limiterVars, workflowVars, mixtureVars, watchVars, syncVars, monitorVars, shutdownVars>>
nonEvents == <<now, cbVars, storeVars, busVars, clusterVars, retryVars, limiterVars, workflowVars, mixtureVars, watchVars, syncVars, monitorVars, shutdownVars>>
nonRetry == <<now, cbVars, storeVars, busVars, clusterVars, eventsVars, limiterVars, workflowVars, mixtureVars, watchVars, syncVars, monitorVars, shutdownVars>>
nonLimiter == <<now, cbVars, storeVars, busVars, clusterVars, eventsVars, retryVars, workflowVars, mixtureVars, watchVars, syncVars, monitorVars, shutdownVars>>
nonWorkflow == <<now, cbVars, storeVars, busVars, clusterVars, eventsVars, retryVars, limiterVars, mixtureVars, watchVars, syncVars, monitorVars, shutdownVars>>
nonMixture == <<now, cbVars, storeVars, busVars, clusterVars, eventsVars, retryVars, limiterVars, workflowVars, watchVars, syncVars, monitorVars, shutdownVars>>
nonWatch == <<now, cbVars, storeVars, busVars, clusterVars, eventsVars, retryVars, limiterVars, workflowVars, mixtureVars, syncVars, monitorVars, shutdownVars>>
nonSync == <<now, cbVars, storeVars, busVars, clusterVars, eventsVars, retryVars, limiterVars, workflowVars, mixtureVars, watchVars, monitorVars, shutdownVars>>
nonStoreSync == <<cbVars, busVars, clusterVars, eventsVars, retryVars, limiterVars, workflowVars, mixtureVars, watchVars, monitorVars, shutdownVars>>
nonMonitor == <<now, cbVars, storeVars, busVars, clusterVars, eventsVars, retryVars, limiterVars, workflowVars, mixtureVars, watchVars, syncVars, shutdownVars>>
nonClusterMonitor == <<cbVars, storeVars, busVars, eventsVars, retryVars, limiterVars, workflowVars, mixtureVars, watchVars, syncVars, shutdownVars>>
nonShutdown == <<now, cbVars, storeVars, busVars, clusterVars, eventsVars, retryVars, limiterVars, workflowVars, mixtureVars, watchVars, syncVars, monitorVars>>

(***************************************************************************)
(* Bounds of the model.                                                    *)
(***************************************************************************)
MaxThreshold == 3
MaxResetTimeout == 1
MaxTime == 3
MaxRecords == 5
MaxSets == 3
MaxChans == 2
MaxMsgs == 3
\* the capacity of a subscriber channel; 100 in Subscribe, scaled down here
ChanCap == 2
\* the number of RegisterAgent and of ScheduleTask calls
MaxAgentRegs == 1
MaxTasks == 1
\* the number of RegisterHandler and of EmitEvent calls
MaxHandlers == 4
MaxEmits == 1
\* the largest MaxAttempts and the largest delay of a RetryConfig
MaxAttemptsBound == 3
MaxDelayBound == 3
\* the number of direct Allow calls, the ticks let pass between two Allow
\* calls, the largest n of WaitN
MaxAllows == 7
MaxElapsed == 3
MaxWaitN == 2
\* the number of agents added to a workflow
MaxWorkflowAgents == 3
MaxMixtureAgents == 2
MaxMonitorTicks == 2
MaxNodeRegs == 2

\* the concurrent callers of the circuit breaker
Callers == {"c1", "c2"}

(***************************************************************************)
(* Circuit breaker: pkg/reliability/circuit_breaker.go                     *)
(***************************************************************************)
StateClosed == "Closed"
StateOpen == "Open"
StateHalfOpen == "HalfOpen"

\* The zero time.Time that NewCircuitBreaker leaves in lastFailure.
ZeroTime == -1

\* error values: nil, two errors fn may return, and the package's ErrCircuitOpen
Nil == "nil"
ErrCircuitOpen == "ErrCircuitOpen"
FnErrors == {"nil", "errA", "errB"}

\* time.Since(cb.lastFailure) > cb.resetTimeout; the zero time lies further
\* back than any timeout.
TimeoutElapsed == lastFailure = ZeroTime \/ now - lastFailure > resetTimeout

NewCircuitBreaker(threshold, timeout) ==
    /\ state = StateClosed
    /\ failureCount = 0
    /\ failureThreshold = threshold
    /\ resetTimeout = timeout
    /\ lastFailure = ZeroTime

\* AfterAllow with Execute's early return forgotten: fn is invoked although
\* AllowRequest returned false.
AfterAllowNoEarlyReturn(p, o, allowed) ==
    IF o = "allow"
    THEN /\ pc' = [pc EXCEPT ![p] = "done"]
         /\ ret' = [ret EXCEPT ![p] = IF allowed THEN "true" ELSE "false"]
    ELSE /\ pc' = [pc EXCEPT ![p] = "fn"]
         /\ ret' = ret

\* What a caller does once AllowRequest has produced `allowed`: a direct call
\* returns it; Execute returns ErrCircuitOpen or goes on to invoke fn.
AfterAllow(p, o, allowed) ==
    IF o = "allow"
    THEN /\ pc' = [pc EXCEPT ![p] = "done"]
         /\ ret' = [ret EXCEPT ![p] = IF allowed THEN "true" ELSE "false"]
    ELSE IF allowed
         THEN /\ pc' = [pc EXCEPT ![p] = "fn"]
              /\ ret' = ret
         ELSE /\ pc' = [pc EXCEPT ![p] = "done"]
              /\ ret' = [ret EXCEPT ![p] = ErrCircuitOpen]

\* AllowRequest up to its first RUnlock: the switch on cb.state under the read
\* lock.  In state Open with the timeout elapsed the caller gives up the read
\* lock and has yet to take the write lock.
AllowRequest(p, o) ==
    /\ pc[p] = "idle"
    /\ op' = [op EXCEPT ![p] = o]
    /\ fnCalls' = [fnCalls EXCEPT ![p] = 0]
    /\ IF state = StateOpen /\ TimeoutElapsed
       THEN /\ pc' = [pc EXCEPT ![p] = "ar_write"]
            /\ ret' = ret
       ELSE AfterAllow(p, o, state # StateOpen)
    /\ UNCHANGED <<state, failureCount, failureThreshold, resetTimeout,
                   lastFailure, now, err, records, lastRecorded>>
    /\ UNCHANGED nonCB

\* AllowRequest lines 58-62: under the write lock, cb.state = StateHalfOpen.
AllowRequestWrite(p) ==
    /\ pc[p] = "ar_write"
    /\ state' = StateHalfOpen
    /\ AfterAllow(p, op[p], TRUE)
    /\ UNCHANGED <<failureCount, failureThreshold, resetTimeout, lastFailure,
                   now, op, err, fnCalls, records, lastRecorded>>
    /\ UNCHANGED nonCB

\* Execute line 42: err := fn()
InvokeFn(p) ==
    /\ pc[p] = "fn"
    /\ \E e \in FnErrors : err' = [err EXCEPT ![p] = e]
    /\ fnCalls' = [fnCalls EXCEPT ![p] = @ + 1]
    /\ pc' = [pc EXCEPT ![p] = "record"]
    /\ UNCHANGED <<state, failureCount, failureThreshold, resetTimeout,
                   lastFailure, now, op, ret, records, lastRecorded>>
    /\ UNCHANGED nonCB

\* RecordResultBody with the threshold compared by > instead of >=.
RecordResultBodyGt(e) ==
    IF e # Nil
    THEN /\ failureCount' = failureCount + 1
         /\ lastFailure' = now
         /\ state' = IF state = StateHalfOpen \/ failureCount + 1 > failureThreshold
                     THEN StateOpen
                     ELSE state
    ELSE IF state = StateHalfOpen
         THEN /\ state' = StateClosed
              /\ failureCount' = 0
              /\ lastFailure' = lastFailure
         ELSE UNCHANGED <<state, failureCount, lastFailure>>

\* RecordResultBody without the HalfOpen trial: a failure opens the breaker
\* only through the counter.
RecordResultBodyNoTrial(e) ==
    IF e # Nil
    THEN /\ failureCount' = failureCount + 1
         /\ lastFailure' = now
         /\ state' = IF failureCount + 1 >= failureThreshold
                     THEN StateOpen
                     ELSE state
    ELSE IF state = StateHalfOpen
         THEN /\ state' = StateClosed
              /\ failureCount' = 0
              /\ lastFailure' = lastFailure
         ELSE UNCHANGED <<state, failureCount, lastFailure>>

\* RecordResultBody counting consecutive failures: a success while Closed
\* clears the counter.
RecordResultBodyConsecutive(e) ==
    IF e # Nil
    THEN /\ failureCount' = failureCount + 1
         /\ lastFailure' = now
         /\ state' = IF state = StateHalfOpen \/ failureCount + 1 >= failureThreshold
                     THEN StateOpen
                     ELSE state
    ELSE IF state = StateHalfOpen
         THEN /\ state' = StateClosed
              /\ failureCount' = 0
              /\ lastFailure' = lastFailure
         ELSE /\ failureCount' = IF state = StateClosed THEN 0 ELSE failureCount
              /\ UNCHANGED <<state, lastFailure>>

\* The body of RecordResult, under the write lock.
RecordResultBody(e) ==
    IF e # Nil
    THEN /\ failureCount' = failureCount + 1
         /\ lastFailure' = now
         /\ state' = IF state = StateHalfOpen \/ failureCount + 1 >= failureThreshold
                     THEN StateOpen
                     ELSE state
    ELSE IF state = StateHalfOpen
         THEN /\ state' = StateClosed
              /\ failureCount' = 0
              /\ lastFailure' = lastFailure
         ELSE UNCHANGED <<state, failureCount, lastFailure>>

\* RecordResult(err) called directly.
RecordResult(p, e) ==
    /\ pc[p] = "idle"
    /\ records < MaxRecords
    /\ RecordResultBody(e)
    /\ records' = records + 1
    /\ lastRecorded' = e
    /\ op' = [op EXCEPT ![p] = "record"]
    /\ err' = [err EXCEPT ![p] = e]
    /\ fnCalls' = [fnCalls EXCEPT ![p] = 0]
    /\ pc' = [pc EXCEPT ![p] = "done"]
    /\ ret' = [ret EXCEPT ![p] = "none"]
    /\ UNCHANGED <<failureThreshold, resetTimeout, now>>
    /\ UNCHANGED nonCB

\* Execute lines 43-44: cb.RecordResult(err); return err
ExecuteRecord(p) ==
    /\ pc[p] = "record"
    /\ records < MaxRecords
    /\ RecordResultBody(err[p])
    /\ records' = records + 1
    /\ lastRecorded' = err[p]
    /\ pc' = [pc EXCEPT ![p] = "done"]
    /\ ret' = [ret EXCEPT ![p] = err[p]]
    /\ UNCHANGED <<failureThreshold, resetTimeout, now, op, err, fnCalls>>
    /\ UNCHANGED nonCB

\* The caller takes the returned value and is free to call again.
Return(p) ==
    /\ pc[p] = "done"
    /\ pc' = [pc EXCEPT ![p] = "idle"]
    /\ op' = [op EXCEPT ![p] = "none"]
    /\ err' = [err EXCEPT ![p] = "none"]
    /\ ret' = [ret EXCEPT ![p] = "none"]
    /\ fnCalls' = [fnCalls EXCEPT ![p] = 0]
    /\ UNCHANGED <<state, failureCount, failureThreshold, resetTimeout,
                   lastFailure, now, records, lastRecorded>>
    /\ UNCHANGED nonCB

\* Time passes.
Tick ==
    /\ now < MaxTime
    /\ now' = now + 1
    /\ UNCHANGED <<cbVars, storeVars, busVars, clusterVars, eventsVars, retryVars, limiterVars, workflowVars, mixtureVars, watchVars, syncVars, monitorVars, shutdownVars>>

\* the callers before their first call
CallersIdle ==
    /\ pc = [p \in Callers |-> "idle"]
    /\ op = [p \in Callers |-> "none"]
    /\ err = [p \in Callers |-> "none"]
    /\ ret = [p \in Callers |-> "none"]
    /\ fnCalls = [p \in Callers |-> 0]
    /\ records = 0
    /\ lastRecorded = "none"

\* a breaker nobody calls, for the specifications of the other components
CBConstructed == NewCircuitBreaker(1, 0) /\ CallersIdle


(***************************************************************************)
(* StateStore: src/unnamed/part_007                                        *)
(***************************************************************************)
Keys == {"k1", "k2"}
Values == {"v1", "v2"}

\* a StateEntry
StateEntry(value, version, updatedAt) ==
    [Value |-> value, Version |-> version, UpdatedAt |-> updatedAt]

\* NewStateStore: an empty map
NewStateStore == states = <<>>

StoreConstructed ==
    /\ NewStateStore
    /\ got = [key |-> "none", exists |-> FALSE, Version |-> 0]
    /\ setCount = [k \in Keys |-> 0]

\* m[key] = entry on a Go map
MapPut(m, key, entry) ==
    [k \in DOMAIN m \cup {key} |-> IF k = key THEN entry ELSE m[k]]

\* Set with the version of the existing entry ignored: every write is
\* stored as version 1.
NextVersionAlwaysOne(key) == 1

\* Set lines 34-38: the version the write gets
NextVersion(key) ==
    IF key \in DOMAIN states THEN states[key].Version + 1 ELSE 1

\* Set: the whole body runs under ss.mu.Lock
Set(key, value) ==
    /\ setCount[key] < MaxSets
    /\ states' = MapPut(states, key, StateEntry(value, NextVersion(key), now))
    /\ setCount' = [setCount EXCEPT ![key] = @ + 1]
    /\ UNCHANGED <<now, got>>
    /\ UNCHANGED nonStore

\* Get: entry, exists := ss.states[key] under ss.mu.RLock
Get(key) ==
    /\ got' = [key |-> key, exists |-> key \in DOMAIN states,
               Version |-> IF key \in DOMAIN states THEN states[key].Version ELSE 0]
    /\ UNCHANGED <<now, states, setCount>>
    /\ UNCHANGED nonStore


(***************************************************************************)
(* MessageBus: src/unnamed/part_009, and the subscriber that               *)
(* AgentServer.StreamEvents is (src/unnamed/part_006:46-68)                *)
(***************************************************************************)
Topics == {"t1", "t2"}
\* one publisher: its Publish calls follow one another
Publishers == {"p1"}
Chans == 1..Len(chanBuf)

SeqRange(q) == {q[i] : i \in 1..Len(q)}

\* NewMessageBus: no subscribers; no Publish call in progress
BusConstructed ==
    /\ subscribers = [t \in Topics |-> <<>>]
    /\ chanBuf = <<>>
    /\ chanClosed = <<>>
    /\ recvLog = <<>>
    /\ pubPc = [p \in Publishers |-> "idle"]
    /\ pubTopic = [p \in Publishers |-> "none"]
    /\ pubMsg = [p \in Publishers |-> 0]
    /\ pubSnap = [p \in Publishers |-> <<>>]
    /\ pubIdx = [p \in Publishers |-> 0]
    /\ pubRet = [p \in Publishers |-> "none"]
    /\ ctxDone = [p \in Publishers |-> FALSE]
    /\ panicked = FALSE
    /\ nextMsg = 1
    /\ msgMeta = <<>>
    /\ completed = {}

\* Subscribe: ch := make(chan Message, cap); append to the topic's slice.
\* Also the first statement of StreamEvents.
Subscribe(topic) ==
    /\ ~panicked
    /\ Len(chanBuf) < MaxChans
    /\ subscribers' = [subscribers EXCEPT ![topic] = Append(@, Len(chanBuf) + 1)]
    /\ chanBuf' = Append(chanBuf, <<>>)
    /\ chanClosed' = Append(chanClosed, FALSE)
    /\ recvLog' = Append(recvLog, <<>>)
    /\ UNCHANGED <<pubPc, pubTopic, pubMsg, pubSnap, pubIdx, pubRet, ctxDone,
                   panicked, nextMsg, msgMeta, completed>>
    /\ UNCHANGED nonBus

\* a bus that ignores the topic: every channel of every topic
SubscribersOfAnyTopic(topic) ==
    [i \in 1..Len(chanBuf) |-> i]

\* Publish line 46: subscribers := mb.subscribers[topic]
SubscribersOf(topic) == subscribers[topic]

\* Publish lines 45-47: the subscriber slice is read under the read lock.
\* A publisher calls again once its previous call has returned.
PublishCall(p, topic) ==
    /\ ~panicked
    /\ pubPc[p] \in {"idle", "done"}
    /\ nextMsg <= MaxMsgs
    /\ pubPc' = [pubPc EXCEPT ![p] = "send"]
    /\ pubTopic' = [pubTopic EXCEPT ![p] = topic]
    /\ pubMsg' = [pubMsg EXCEPT ![p] = nextMsg]
    /\ pubSnap' = [pubSnap EXCEPT ![p] = SubscribersOf(topic)]
    /\ pubIdx' = [pubIdx EXCEPT ![p] = 1]
    /\ pubRet' = [pubRet EXCEPT ![p] = "none"]
    /\ ctxDone' = [ctxDone EXCEPT ![p] = FALSE]
    /\ nextMsg' = nextMsg + 1
    /\ msgMeta' = Append(msgMeta, [topic |-> topic, before |-> completed])
    /\ UNCHANGED <<subscribers, chanBuf, chanClosed, panicked, recvLog, completed>>
    /\ UNCHANGED nonBus

\* the channel the loop of Publish is at
InLoop(p) == pubPc[p] = "send" /\ pubIdx[p] <= Len(pubSnap[p])
CurChan(p) == pubSnap[p][pubIdx[p]]

\* select, case <-ctx.Done(): return ctx.Err()
PublishCtxDone(p) ==
    /\ ~panicked
    /\ InLoop(p)
    /\ ctxDone[p]
    /\ pubPc' = [pubPc EXCEPT ![p] = "done"]
    /\ pubRet' = [pubRet EXCEPT ![p] = "ctx.Err"]
    /\ completed' = completed \cup {pubMsg[p]}
    /\ UNCHANGED <<subscribers, chanBuf, chanClosed, pubTopic, pubMsg, pubSnap,
                   pubIdx, ctxDone, panicked, recvLog, nextMsg, msgMeta>>
    /\ UNCHANGED nonBus

\* select, case ch <- msg with room in the buffer
PublishDeliver(p) ==
    /\ ~panicked
    /\ InLoop(p)
    /\ ~chanClosed[CurChan(p)]
    /\ Len(chanBuf[CurChan(p)]) < ChanCap
    /\ chanBuf' = [chanBuf EXCEPT ![CurChan(p)] = Append(@, pubMsg[p])]
    /\ pubIdx' = [pubIdx EXCEPT ![p] = @ + 1]
    /\ UNCHANGED <<subscribers, chanClosed, pubPc, pubTopic, pubMsg, pubSnap,
                   pubRet, ctxDone, panicked, recvLog, nextMsg, msgMeta, completed>>
    /\ UNCHANGED nonBus

\* select, case ch <- msg on a closed channel: the send is ready and panics
PublishSendOnClosed(p) ==
    /\ ~panicked
    /\ InLoop(p)
    /\ chanClosed[CurChan(p)]
    /\ pubPc' = [pubPc EXCEPT ![p] = "panic"]
    /\ panicked' = TRUE
    /\ UNCHANGED <<subscribers, chanBuf, chanClosed, pubTopic, pubMsg, pubSnap,
                   pubIdx, pubRet, ctxDone, recvLog, nextMsg, msgMeta, completed>>
    /\ UNCHANGED nonBus

\* select, default: no case is ready (buffer full, context live): continue
PublishSkipFull(p) ==
    /\ ~panicked
    /\ InLoop(p)
    /\ ~ctxDone[p]
    /\ ~chanClosed[CurChan(p)]
    /\ Len(chanBuf[CurChan(p)]) >= ChanCap
    /\ pubIdx' = [pubIdx EXCEPT ![p] = @ + 1]
    /\ UNCHANGED <<subscribers, chanBuf, chanClosed, pubPc, pubTopic, pubMsg,
                   pubSnap, pubRet, ctxDone, panicked, recvLog, nextMsg, msgMeta,
                   completed>>
    /\ UNCHANGED nonBus

\* Publish line 59: the loop is over, return nil
PublishReturn(p) ==
    /\ ~panicked
    /\ pubPc[p] = "send"
    /\ pubIdx[p] > Len(pubSnap[p])
    /\ pubPc' = [pubPc EXCEPT ![p] = "done"]
    /\ pubRet' = [pubRet EXCEPT ![p] = "nil"]
    /\ completed' = completed \cup {pubMsg[p]}
    /\ UNCHANGED <<subscribers, chanBuf, chanClosed, pubTopic, pubMsg, pubSnap,
                   pubIdx, ctxDone, panicked, recvLog, nextMsg, msgMeta>>
    /\ UNCHANGED nonBus

\* the context of a Publish call in progress is cancelled
CancelCtx(p) ==
    /\ ~panicked
    /\ pubPc[p] = "send"
    /\ ~ctxDone[p]
    /\ ctxDone' = [ctxDone EXCEPT ![p] = TRUE]
    /\ UNCHANGED <<subscribers, chanBuf, chanClosed, pubPc, pubTopic, pubMsg,
                   pubSnap, pubIdx, pubRet, panicked, recvLog, nextMsg, msgMeta,
                   completed>>
    /\ UNCHANGED nonBus

\* StreamEvents lines 56-66: msg := <-eventCh, forwarded to the stream
StreamReceive(c) ==
    /\ ~panicked
    /\ ~chanClosed[c]
    /\ chanBuf[c] # <<>>
    /\ recvLog' = [recvLog EXCEPT ![c] = Append(@, Head(chanBuf[c]))]
    /\ chanBuf' = [chanBuf EXCEPT ![c] = Tail(@)]
    /\ UNCHANGED <<subscribers, chanClosed, pubPc, pubTopic, pubMsg, pubSnap,
                   pubIdx, pubRet, ctxDone, panicked, nextMsg, msgMeta, completed>>
    /\ UNCHANGED nonBus

\* StreamEvents lines 49 and 54-55 / 64-65: the caller disconnects or the send
\* fails, the handler returns and its deferred close(eventCh) runs.  The
\* channel stays in mb.subscribers: the bus has no way to remove it.
StreamEnd(c) ==
    /\ ~panicked
    /\ ~chanClosed[c]
    /\ chanClosed' = [chanClosed EXCEPT ![c] = TRUE]
    /\ UNCHANGED <<subscribers, chanBuf, pubPc, pubTopic, pubMsg, pubSnap, pubIdx,
                   pubRet, ctxDone, panicked, recvLog, nextMsg, msgMeta, completed>>
    /\ UNCHANGED nonBus

(***************************************************************************)
(* Cluster and Node: src/pkg/distributed/cluster.go, node.go               *)
(***************************************************************************)
StatusUnknown == "Unknown"
StatusHealthy == "Healthy"
StatusOverloaded == "Overloaded"
StatusUnhealthy == "Unhealthy"

\* NewNode: capacity: 100
Capacity == 100

\* The node objects handed to the cluster, with their NodeConfig.  n4 carries
\* the id of n1.
NodeRefs == {"n1", "n2", "n3", "n4"}
NodeIds == {"A", "B", "C"}
ConfigID(n) == CASE n = "n1" -> "A" [] n = "n2" -> "B" [] n = "n3" -> "C" [] n = "n4" -> "A"
ConfigTags(n) ==
    CASE n = "n1" -> {"gpu", "ssd"} [] n = "n2" -> {"gpu", "ssd"}
      [] n = "n3" -> {"gpu"} [] n = "n4" -> {}

\* The number of agents (under names of no further interest) each node object
\* has registered before it is handed to the cluster.
InitialLoad(n) == CASE n = "n1" -> 80 [] n = "n2" -> 50 [] n = "n3" -> 10 [] n = "n4" -> 99

\* the agent names of interest; "" is the empty AgentID of TaskRequirements
AgentNames == {"a1"}
NoAgentID == ""
TagSets == {{}, {"gpu", "ssd"}}
EventTypes == {"node_registered", "agent_registered", "task_start",
               "task_complete", "task_error"}

\* a/b < c/d for positive b, d: the float64 comparison of two load factors
RatioLess(a, b, c, d) == a * d < c * b

\* NewCluster and NewNode
ClusterConstructed ==
    /\ nodes = <<>>
    /\ load = [n \in NodeRefs |-> InitialLoad(n)]
    /\ status = [n \in NodeRefs |-> StatusHealthy]
    /\ agents = [n \in NodeRefs |-> {}]
    /\ lastPing = [n \in NodeRefs |-> 0]
    /\ published = [t \in EventTypes |-> 0]
    /\ regRet = [call |-> "none", err |-> "none"]
    /\ inserts = [i \in NodeIds |-> 0]
    /\ agentRegs = 0
    /\ schedPc = "idle"
    /\ requirements = [AgentID |-> NoAgentID, Tags |-> {}]
    /\ toVisit = {}
    /\ bestNode = "nil"
    /\ lowestLoad = <<1, 1>>
    /\ schedRet = "none"
    /\ observed = <<>>
    /\ tasks = 0
    /\ agentCalls = 0

\* AgentClient.PublishEvent: one more call for the event type
Publish(type) == [published EXCEPT ![type] = @ + 1]

\* RegisterNode without the existence check: the map entry is overwritten
IdTakenNever(n) == FALSE

\* RegisterNode line 52: _, exists := c.nodes[node.config.ID]
IdTaken(n) == ConfigID(n) \in DOMAIN nodes

\* monitorHeartbeats lines 174-183: c.mu is locked for the whole tick
MonitorHoldsLock == monPc = "tick"

\* RegisterNode: the whole body, the publication included, runs under
\* c.mu.Lock; findSuitableNode holds the read lock while it scans.
RegisterNode(n, pubOk) ==
    /\ schedPc # "scan"
    /\ ~MonitorHoldsLock
    /\ IF IdTaken(n)
       THEN /\ regRet' = [call |-> "RegisterNode", err |-> "AlreadyExists"]
            /\ UNCHANGED <<nodes, published, inserts>>
       ELSE /\ nodes' = MapPut(nodes, ConfigID(n), n)
            /\ inserts' = [inserts EXCEPT ![ConfigID(n)] = @ + 1]
            /\ published' = Publish("node_registered")
            /\ regRet' = [call |-> "RegisterNode",
                          err |-> IF pubOk THEN "nil" ELSE "PublishFailed"]
    /\ UNCHANGED <<load, status, agents, lastPing, agentRegs, schedPc,
                   requirements, toVisit, bestNode, lowestLoad, schedRet,
                   observed, tasks, agentCalls>>
    /\ UNCHANGED nonCluster

\* RegisterAgent without the capacity check
AtCapacityNever(n) == FALSE

\* RegisterAgent line 66: n.load >= n.capacity
AtCapacity(n) == load[n] >= Capacity

\* Node.RegisterAgent, under n.mu.Lock
RegisterAgent(n, a, pubOk) ==
    /\ agentRegs' = agentRegs + 1
    /\ IF AtCapacity(n)
       THEN /\ regRet' = [call |-> "RegisterAgent", err |-> "AtCapacity"]
            /\ UNCHANGED <<load, agents, published>>
       ELSE /\ agents' = [agents EXCEPT ![n] = @ \cup {a}]
            /\ load' = [load EXCEPT ![n] = @ + 1]
            /\ published' = Publish("agent_registered")
            /\ regRet' = [call |-> "RegisterAgent",
                          err |-> IF pubOk THEN "nil" ELSE "PublishFailed"]
    /\ UNCHANGED <<nodes, status, lastPing, inserts, schedPc,
                   requirements, toVisit, bestNode, lowestLoad, schedRet,
                   observed, tasks, agentCalls>>
    /\ UNCHANGED nonCluster

\* Node.UpdateStatus, under n.mu.Lock: load/capacity > 0.8 is Overloaded
UpdateStatus(n) ==
    /\ lastPing' = [lastPing EXCEPT ![n] = now]
    /\ status' = [status EXCEPT ![n] = IF load[n] * 5 > Capacity * 4
                                        THEN StatusOverloaded
                                        ELSE StatusHealthy]
    /\ UNCHANGED <<nodes, load, agents, published, regRet, inserts, agentRegs, schedPc, requirements, toVisit, bestNode,
                   lowestLoad, schedRet, observed, tasks, agentCalls>>
    /\ UNCHANGED nonCluster

\* nodeMatchesRequirements with the agent looked up whatever its id
NodeMatchesRequirementsAgentAlways(n, req) ==
    /\ req.AgentID \in agents[n]
    /\ req.Tags # {} => \A t \in req.Tags : t \in ConfigTags(n)

\* nodeMatchesRequirements
NodeMatchesRequirements(n, req) ==
    /\ req.AgentID # NoAgentID => req.AgentID \in agents[n]
    /\ req.Tags # {} => \A t \in req.Tags : t \in ConfigTags(n)

\* ScheduleTask line 98 and findSuitableNode lines 114-118: the read lock is
\* taken, bestNode is nil and lowestLoad is 1.0
ScheduleTask(agentID, tags) ==
    /\ schedPc = "idle"
    /\ ~MonitorHoldsLock
    /\ tasks < MaxTasks
    /\ tasks' = tasks + 1
    /\ requirements' = [AgentID |-> agentID, Tags |-> tags]
    /\ schedPc' = "scan"
    /\ toVisit' = DOMAIN nodes
    /\ bestNode' = "nil"
    /\ lowestLoad' = <<1, 1>>
    /\ schedRet' = "none"
    /\ observed' = <<>>
    /\ UNCHANGED <<nodes, load, status, agents, lastPing, published, regRet,
                   inserts, agentRegs, agentCalls>>
    /\ UNCHANGED nonCluster

\* findSuitableNode taking every Healthy matching node it comes to
BetterThanBestAlways(n) == TRUE

\* findSuitableNode lines 131-132: loadFactor < lowestLoad
BetterThanBest(n) ==
    RatioLess(load[n], Capacity, lowestLoad[1], lowestLoad[2])

\* findSuitableNode lines 120-136: one iteration of the range over c.nodes, in
\* the map's arbitrary order.  The node's fields are read without n.mu.
ScanNode(id) ==
    /\ schedPc = "scan"
    /\ id \in toVisit
    /\ toVisit' = toVisit \ {id}
    /\ observed' = MapPut(observed, id,
                          [status |-> status[nodes[id]], agents |-> agents[nodes[id]],
                           load |-> load[nodes[id]]])
    /\ IF /\ status[nodes[id]] = StatusHealthy
          /\ NodeMatchesRequirements(nodes[id], requirements)
          /\ BetterThanBest(nodes[id])
       THEN /\ bestNode' = nodes[id]
            /\ lowestLoad' = <<load[nodes[id]], Capacity>>
       ELSE UNCHANGED <<bestNode, lowestLoad>>
    /\ UNCHANGED <<nodes, load, status, agents, lastPing, published, regRet,
                   inserts, agentRegs, schedPc, requirements, schedRet,
                   tasks, agentCalls>>
    /\ UNCHANGED nonCluster

\* findSuitableNode line 138 and ScheduleTask lines 99-101: the scan is over;
\* without a node ScheduleTask fails
ScanReturn ==
    /\ schedPc = "scan"
    /\ toVisit = {}
    /\ IF bestNode = "nil"
       THEN schedPc' = "done" /\ schedRet' = "NoSuitableNode"
       ELSE schedPc' = "dispatch" /\ schedRet' = schedRet
    /\ UNCHANGED <<nodes, load, status, agents, lastPing, published, regRet,
                   inserts, agentRegs, requirements, toVisit, bestNode,
                   lowestLoad, observed, tasks, agentCalls>>
    /\ UNCHANGED nonCluster

\* ScheduleTask line 104, Node.ExecuteTask lines 85-102: the agent is looked
\* up and task_start is published
ExecuteTaskStart(pubOk) ==
    /\ schedPc = "dispatch"
    /\ IF requirements.AgentID \notin agents[bestNode]
       THEN /\ schedPc' = "done"
            /\ schedRet' = "AgentNotFound"
            /\ published' = published
       ELSE /\ published' = Publish("task_start")
            /\ IF pubOk
               THEN schedPc' = "run" /\ schedRet' = schedRet
               ELSE schedPc' = "done" /\ schedRet' = "PublishFailed"
    /\ UNCHANGED <<nodes, load, status, agents, lastPing, regRet, inserts,
                   agentRegs, requirements, toVisit, bestNode,
                   lowestLoad, observed, tasks, agentCalls>>
    /\ UNCHANGED nonCluster

\* Node.ExecuteTask lines 105-124: the agent runs; task_error or
\* task_complete is published and the outcome returned
ExecuteTaskRun(agentOk) ==
    /\ schedPc = "run"
    /\ agentCalls' = agentCalls + 1
    /\ published' = Publish(IF agentOk THEN "task_complete" ELSE "task_error")
    /\ schedPc' = "done"
    /\ schedRet' = IF agentOk THEN "result" ELSE "ExecutionFailed"
    /\ UNCHANGED <<nodes, load, status, agents, lastPing, regRet, inserts,
                   agentRegs, requirements, toVisit, bestNode,
                   lowestLoad, observed, tasks>>
    /\ UNCHANGED nonCluster

\* ScheduleTask has returned to its caller; its locals are gone
ScheduleReturn ==
    /\ schedPc = "done"
    /\ schedPc' = "idle"
    /\ requirements' = [AgentID |-> NoAgentID, Tags |-> {}]
    /\ toVisit' = {}
    /\ bestNode' = "nil"
    /\ lowestLoad' = <<1, 1>>
    /\ schedRet' = "none"
    /\ observed' = <<>>
    /\ UNCHANGED <<nodes, load, status, agents, lastPing, published, regRet,
                   inserts, agentRegs, tasks, agentCalls>>
    /\ UNCHANGED nonCluster

(***************************************************************************)
(* EventSystem: unnamed/part_008                                           *)
(***************************************************************************)
\* the values of Event.Type; a registration is named by its number
EventKinds == {"e1", "e2"}
Registrations == 1..Len(calls)

NewEventSystem == handlers = [t \in EventKinds |-> <<>>]

EventsConstructed ==
    /\ NewEventSystem
    /\ emitPc = "idle"
    /\ emitType = "none"
    /\ emitSnap = <<>>
    /\ hState = <<>>
    /\ errCh = <<>>
    /\ emitRet = "none"
    /\ calls = <<>>
    /\ hResult = <<>>
    /\ regAtStart = [t \in EventKinds |-> <<>>]
    /\ emits = 0

\* RegisterHandler, under es.mu.Lock
RegisterHandler(eventType) ==
    /\ Len(calls) < MaxHandlers
    /\ handlers' = [handlers EXCEPT ![eventType] = Append(@, Len(calls) + 1)]
    /\ calls' = Append(calls, 0)
    /\ hResult' = Append(hResult, "none")
    /\ UNCHANGED <<emitPc, emitType, emitSnap, hState, errCh, emitRet,
                   regAtStart, emits>>
    /\ UNCHANGED nonEvents

\* EmitEvent handing the event to the handlers of every type
HandlersOfAnyType(eventType) == handlers["e1"] \o handlers["e2"]

\* EmitEvent lines 40-42: handlers := es.handlers[event.Type]
HandlersOf(eventType) == handlers[eventType]

\* EmitEvent lines 40-55: the handler slice is read under the read lock and
\* one goroutine is started per handler
EmitEvent(eventType) ==
    /\ emitPc \in {"idle", "done"}
    /\ emits < MaxEmits
    /\ emits' = emits + 1
    /\ emitPc' = "running"
    /\ emitType' = eventType
    /\ emitSnap' = HandlersOf(eventType)
    /\ hState' = [i \in 1..Len(HandlersOf(eventType)) |-> "started"]
    /\ errCh' = <<>>
    /\ emitRet' = "none"
    /\ calls' = [h \in Registrations |-> 0]
    /\ hResult' = [h \in Registrations |-> "none"]
    /\ regAtStart' = handlers
    /\ UNCHANGED handlers
    /\ UNCHANGED nonEvents

\* EmitEvent line 51: the goroutine of the i-th handler calls it
HandlerCall(i) ==
    /\ emitPc = "running"
    /\ i \in 1..Len(emitSnap)
    /\ hState[i] = "started"
    /\ hState' = [hState EXCEPT ![i] = "running"]
    /\ calls' = [calls EXCEPT ![emitSnap[i]] = @ + 1]
    /\ UNCHANGED <<handlers, emitPc, emitType, emitSnap, errCh, emitRet,
                   hResult, regAtStart, emits>>
    /\ UNCHANGED nonEvents

\* EmitEvent lines 50-53: the handler returns e; an error is sent on errCh,
\* whose buffer has room for one error per handler; wg.Done
HandlerReturn(i, e) ==
    /\ emitPc = "running"
    /\ i \in 1..Len(emitSnap)
    /\ hState[i] = "running"
    /\ hState' = [hState EXCEPT ![i] = "returned"]
    /\ hResult' = [hResult EXCEPT ![emitSnap[i]] = e]
    /\ errCh' = IF e # Nil THEN Append(errCh, e) ELSE errCh
    /\ UNCHANGED <<handlers, emitPc, emitType, emitSnap, emitRet, calls,
                   regAtStart, emits>>
    /\ UNCHANGED nonEvents

\* EmitEvent lines 57-66: wg.Wait is over, errCh is closed and its first
\* error, if it holds one, is returned
EmitReturn ==
    /\ emitPc = "running"
    /\ \A i \in 1..Len(emitSnap) : hState[i] = "returned"
    /\ emitPc' = "done"
    /\ emitRet' = IF errCh # <<>> THEN Head(errCh) ELSE Nil
    /\ UNCHANGED <<handlers, emitType, emitSnap, hState, errCh, calls, hResult,
                   regAtStart, emits>>
    /\ UNCHANGED nonEvents

(***************************************************************************)
(* Retry: unnamed/part_005                                                 *)
(***************************************************************************)
\* ctx.Err() of a cancelled context
CtxErr == "context canceled"

\* The configurations Retry is called with.  Durations are whole time units;
\* BackoffFactor, a float64, is a ratio <<numerator, denominator>>;
\* RetryableErrors is the set of its elements.
BackoffFactors == {<<1, 1>>, <<2, 1>>, <<3, 2>>}
RetryableLists == {{}, {"errA"}}
RetryConfigs ==
    [MaxAttempts : 0..MaxAttemptsBound,
     InitialDelay : 0..MaxDelayBound,
     MaxDelay : 0..MaxDelayBound,
     BackoffFactor : BackoffFactors,
     RetryableErrors : RetryableLists]

\* the configurations that leave no attempt: MaxAttempts, an int, is zero or
\* negative
NoAttemptConfigs ==
    [MaxAttempts : {-1, 0},
     InitialDelay : 0..MaxDelayBound,
     MaxDelay : 0..MaxDelayBound,
     BackoffFactor : BackoffFactors,
     RetryableErrors : RetryableLists]

\* before the call
RetryConstructed ==
    /\ retryConfig = [MaxAttempts |-> 0, InitialDelay |-> 0, MaxDelay |-> 0,
                      BackoffFactor |-> <<1, 1>>, RetryableErrors |-> {}]
    /\ retryPc = "idle"
    /\ attempt = 0
    /\ delay = 0
    /\ retryErr = Nil
    /\ retryRet = "none"
    /\ retryCtxDone = FALSE
    /\ attemptErrs = <<>>
    /\ waits = <<>>
    /\ cancelledIn = "none"

\* isRetryable that takes every error for retryable
IsRetryableAlways(e, retryableErrors) == TRUE

\* isRetryable
IsRetryable(e, retryableErrors) ==
    IF retryableErrors = {} THEN TRUE ELSE e \in retryableErrors

\* the loop of Retry stopping one attempt early
LoopConditionShort == attempt < retryConfig.MaxAttempts

\* the loop of Retry entered at least once
LoopConditionOnceAtLeast == attempt = 1 \/ attempt <= retryConfig.MaxAttempts

\* Retry line 33: attempt <= config.MaxAttempts
LoopCondition == attempt <= retryConfig.MaxAttempts

\* the backoff without the cap
NextDelayUncapped == (delay * retryConfig.BackoffFactor[1]) \div retryConfig.BackoffFactor[2]

\* Retry lines 51-54: delay = time.Duration(float64(delay) * BackoffFactor),
\* which drops the fraction, capped at MaxDelay
NextDelay ==
    LET d == (delay * retryConfig.BackoffFactor[1]) \div retryConfig.BackoffFactor[2]
    IN IF d > retryConfig.MaxDelay THEN retryConfig.MaxDelay ELSE d

\* the select of Retry deaf to the context
WaitInterruptedNever == FALSE

\* Retry lines 47-49: ctx.Done() is ready
WaitInterrupted == retryCtxDone

\* Retry lines 29-31
RetryCall(config) ==
    /\ retryPc = "idle"
    /\ retryConfig' = config
    /\ retryPc' = "loop"
    /\ attempt' = 1
    /\ delay' = config.InitialDelay
    /\ retryErr' = Nil
    /\ UNCHANGED <<retryRet, retryCtxDone, attemptErrs, waits, cancelledIn>>
    /\ UNCHANGED nonRetry

\* Retry lines 33-49: one attempt.  fn returns e; success, an error that is
\* not retryable and the last attempt end the call.  Otherwise the select is
\* entered: with the context already cancelled the call returns ctx.Err(),
\* unless the timer of a delay of zero is ready too and is the case chosen.
RetryAttempt(e, viaTimer) ==
    /\ retryPc = "loop"
    /\ LoopCondition
    /\ attemptErrs' = Append(attemptErrs, e)
    /\ retryErr' = e
    /\ IF e = Nil
       THEN retryPc' = "done" /\ retryRet' = Nil
       ELSE IF ~IsRetryable(e, retryConfig.RetryableErrors)
       THEN retryPc' = "done" /\ retryRet' = e
       ELSE IF attempt = retryConfig.MaxAttempts
       THEN retryPc' = "done" /\ retryRet' = e
       ELSE IF WaitInterrupted /\ ~(viaTimer /\ delay = 0)
       THEN retryPc' = "done" /\ retryRet' = CtxErr
       ELSE retryPc' = "wait" /\ retryRet' = retryRet
    /\ UNCHANGED <<retryConfig, attempt, delay, retryCtxDone, waits, cancelledIn>>
    /\ UNCHANGED nonRetry

\* Retry lines 50-55: time.After(delay) fires; the delay is updated and the
\* loop goes on
RetryWaitDone ==
    /\ retryPc = "wait"
    /\ ~WaitInterrupted \/ cancelledIn = "loop"
    /\ waits' = Append(waits, delay)
    /\ delay' = NextDelay
    /\ attempt' = attempt + 1
    /\ retryPc' = "loop"
    /\ UNCHANGED <<retryConfig, retryErr, retryRet, retryCtxDone, attemptErrs,
                   cancelledIn>>
    /\ UNCHANGED nonRetry

\* Retry lines 48-49: the context is cancelled during the wait
RetryWaitCancelled ==
    /\ retryPc = "wait"
    /\ WaitInterrupted
    /\ cancelledIn = "wait"
    /\ retryPc' = "done"
    /\ retryRet' = CtxErr
    /\ UNCHANGED <<retryConfig, attempt, delay, retryErr, retryCtxDone,
                   attemptErrs, waits, cancelledIn>>
    /\ UNCHANGED nonRetry

\* Retry line 58: the loop is over
RetryExhausted ==
    /\ retryPc = "loop"
    /\ ~LoopCondition
    /\ retryPc' = "done"
    /\ retryRet' = retryErr
    /\ UNCHANGED <<retryConfig, attempt, delay, retryErr, retryCtxDone,
                   attemptErrs, waits, cancelledIn>>
    /\ UNCHANGED nonRetry

\* the caller cancels the context of the call
RetryCancel ==
    /\ retryPc \in {"loop", "wait"}
    /\ ~retryCtxDone
    /\ retryCtxDone' = TRUE
    /\ cancelledIn' = retryPc
    /\ UNCHANGED <<retryConfig, retryPc, attempt, delay, retryErr, retryRet,
                   attemptErrs, waits>>
    /\ UNCHANGED nonRetry

(***************************************************************************)
(* RateLimiter: pkg/reliability/rate_limiter.go                            *)
(***************************************************************************)
\* Time is counted in ticks of a tenth of a second, tokens (a float64) in
\* hundredths, rates in tenths of a token per second: one tick at rate r
\* refills r hundredths of a token.
TicksPerSecond == 10
TokenUnit == 100
RateUnit == 10

\* the limiters constructed: rate 0.5 and 5 per second, bucket sizes 1 and 5
Rates == {5, 50}
BucketSizes == {1, 5}

\* NewRateLimiter: the bucket starts full
NewRateLimiter(r, size) ==
    /\ rate = r
    /\ bucketSize = size
    /\ tokens = size * TokenUnit
    /\ elapsed = 0

\* no call has been made
LimiterIdle ==
    /\ allowRet = FALSE
    /\ allowCount = 0
    /\ immediate = 0
    /\ wnPc = "idle"
    /\ wnN = 0
    /\ wnRet = "none"
    /\ wnCtxDone = FALSE
    /\ sleepLeft = 0
    /\ wnRequested = 0
    /\ wnGranted = 0

LimiterConstructed == NewRateLimiter(50, 5) /\ LimiterIdle

\* the refill without the cap of the bucket
RefilledUncapped == tokens + elapsed * rate

\* Allow line 35: min(float64(rl.bucketSize), rl.tokens+elapsed*rl.rate)
Refilled ==
    IF tokens + elapsed * rate < bucketSize * TokenUnit
    THEN tokens + elapsed * rate
    ELSE bucketSize * TokenUnit

\* Allow asking for more than one token
GrantedStrict == Refilled > TokenUnit

\* Allow line 38: rl.tokens >= 1
Granted == Refilled >= TokenUnit

\* Allow lines 33-42, under rl.mu: refill, lastRefill = now, take a token
AllowBody ==
    /\ tokens' = IF Granted THEN Refilled - TokenUnit ELSE Refilled
    /\ elapsed' = 0
    /\ UNCHANGED <<rate, bucketSize>>

\* a direct call of Allow
Allow ==
    /\ wnPc # "panic"
    /\ allowCount < MaxAllows
    /\ AllowBody
    /\ allowRet' = Granted
    /\ allowCount' = allowCount + 1
    /\ immediate' = IF elapsed = 0 /\ immediate = allowCount /\ wnPc = "idle"
                    THEN immediate + 1
                    ELSE immediate
    /\ UNCHANGED <<wnPc, wnN, wnRet, wnCtxDone, sleepLeft, wnRequested, wnGranted>>
    /\ UNCHANGED nonLimiter

\* WaitN is called
WaitNCall(n) ==
    /\ wnPc = "idle"
    /\ wnPc' = "loop"
    /\ wnN' = n
    /\ wnRequested' = n
    /\ UNCHANGED <<rate, bucketSize, tokens, elapsed, allowRet, allowCount,
                   immediate, wnRet, wnCtxDone, sleepLeft, wnGranted>>
    /\ UNCHANGED nonLimiter

\* WaitN lines 47 and 59: n has come down to 0
WaitNReturn ==
    /\ wnPc = "loop"
    /\ wnN <= 0
    /\ wnPc' = "done"
    /\ wnRet' = Nil
    /\ UNCHANGED <<rate, bucketSize, tokens, elapsed, allowRet, allowCount,
                   immediate, wnN, wnCtxDone, sleepLeft, wnRequested, wnGranted>>
    /\ UNCHANGED nonLimiter

\* WaitN lines 48-50: the select finds the context cancelled
WaitNCtxDone ==
    /\ wnPc = "loop"
    /\ wnN > 0
    /\ wnCtxDone
    /\ wnPc' = "done"
    /\ wnRet' = CtxErr
    /\ UNCHANGED <<rate, bucketSize, tokens, elapsed, allowRet, allowCount,
                   immediate, wnN, wnCtxDone, sleepLeft, wnRequested, wnGranted>>
    /\ UNCHANGED nonLimiter

\* time.Duration(rl.rate): the rate with its fraction dropped
RateAsDuration == rate \div RateUnit

\* WaitN lines 51-56: the default case.  Allow is called; without a token
\* the goroutine goes to sleep for time.Second / time.Duration(rl.rate), a
\* division that panics when the rate is below 1.
WaitNAllow ==
    /\ wnPc = "loop"
    /\ wnN > 0
    /\ ~wnCtxDone
    /\ AllowBody
    /\ IF Granted
       THEN /\ wnN' = wnN - 1
            /\ wnGranted' = wnGranted + 1
            /\ UNCHANGED <<wnPc, sleepLeft>>
       ELSE /\ UNCHANGED <<wnN, wnGranted>>
            /\ IF RateAsDuration = 0
               THEN wnPc' = "panic" /\ sleepLeft' = sleepLeft
               ELSE wnPc' = "sleep" /\ sleepLeft' = TicksPerSecond \div RateAsDuration
    /\ UNCHANGED <<allowRet, allowCount, immediate, wnRet, wnCtxDone, wnRequested>>
    /\ UNCHANGED nonLimiter

\* WaitN line 55: time.Sleep returns
WaitNWake ==
    /\ wnPc = "sleep"
    /\ sleepLeft = 0
    /\ wnPc' = "loop"
    /\ UNCHANGED <<rate, bucketSize, tokens, elapsed, allowRet, allowCount,
                   immediate, wnN, wnRet, wnCtxDone, sleepLeft, wnRequested,
                   wnGranted>>
    /\ UNCHANGED nonLimiter

\* the caller cancels the context of WaitN
WaitNCancel ==
    /\ wnPc \in {"loop", "sleep"}
    /\ ~wnCtxDone
    /\ wnCtxDone' = TRUE
    /\ UNCHANGED <<rate, bucketSize, tokens, elapsed, allowRet, allowCount,
                   immediate, wnPc, wnN, wnRet, sleepLeft, wnRequested, wnGranted>>
    /\ UNCHANGED nonLimiter

\* a tick passes: time.Now moves on, a sleep comes nearer its end
Elapse ==
    /\ wnPc # "panic"
    /\ elapsed < MaxElapsed
    /\ elapsed' = elapsed + 1
    /\ sleepLeft' = IF sleepLeft > 0 THEN sleepLeft - 1 ELSE 0
    /\ UNCHANGED <<rate, bucketSize, tokens, allowRet, allowCount, immediate,
                   wnPc, wnN, wnRet, wnCtxDone, wnRequested, wnGranted>>
    /\ UNCHANGED nonLimiter

(***************************************************************************)
(* SequentialWorkflow: unnamed/part_003                                    *)
(***************************************************************************)
\* The agents added to workflows and the tasks given to them.  A string is
\* the sequence of its parts; an agent that succeeds returns its input with
\* its own name appended, so that the output tells who produced it from what.
WorkflowAgents == {"A", "B"}
WorkflowTasks == {<<"x">>, <<"y">>}
AgentOutput(a, input) == Append(input, a)
EmptyString == <<>>

\* NewSequentialWorkflow
NewSequentialWorkflow == wfAgents = <<>>

WorkflowConstructed ==
    /\ NewSequentialWorkflow
    /\ wfPc = "idle"
    /\ wfIdx = 0
    /\ wfTask = EmptyString
    /\ finalResult = EmptyString
    /\ wfRet = [result |-> EmptyString, err |-> "none"]
    /\ wfCtxDone = FALSE
    /\ wfInput = EmptyString
    /\ invocations = <<>>
    /\ wfFailed = FALSE
    /\ execErr = "none"

\* SequentialWorkflow.AddAgent
AddAgent(a) ==
    /\ wfPc = "idle"
    /\ Len(wfAgents) < MaxWorkflowAgents
    /\ wfAgents' = Append(wfAgents, a)
    /\ UNCHANGED <<wfPc, wfIdx, wfTask, finalResult, wfRet, wfCtxDone, wfInput,
                   invocations, wfFailed, execErr>>
    /\ UNCHANGED nonWorkflow

\* Execute lines 37-41: the call begins
WorkflowExecute(task) ==
    /\ wfPc = "idle"
    /\ wfPc' = "loop"
    /\ wfIdx' = 1
    /\ wfTask' = task
    /\ wfInput' = task
    /\ finalResult' = EmptyString
    /\ UNCHANGED <<wfAgents, wfRet, wfCtxDone, invocations, wfFailed, execErr>>
    /\ UNCHANGED nonWorkflow

\* Execute returning the task it had reached along with the error
AbortPartial(e) == [result |-> wfTask, err |-> e]

\* Execute lines 44 and 48: return "", err
Abort(e) == [result |-> EmptyString, err |-> e]

\* Execute lines 42-44: the select finds the context cancelled
WorkflowCtxDone ==
    /\ wfPc = "loop"
    /\ wfIdx <= Len(wfAgents)
    /\ wfCtxDone
    /\ wfPc' = "done"
    /\ wfRet' = Abort(CtxErr)
    /\ UNCHANGED <<wfAgents, wfIdx, wfTask, finalResult, wfCtxDone, wfInput,
                   invocations, wfFailed, execErr>>
    /\ UNCHANGED nonWorkflow

\* Execute giving every agent the task of the call
NextTaskSame(result) == wfTask

\* Execute line 51: task = result
NextTask(result) == result

\* Execute lines 45-54: the agent of this iteration runs on task; its error
\* ends the call, its result is the task of the next agent and, from the
\* last agent, the final result
WorkflowAgentStep(e) ==
    /\ wfPc = "loop"
    /\ wfIdx <= Len(wfAgents)
    /\ ~wfCtxDone
    /\ invocations' = Append(invocations, [agent |-> wfAgents[wfIdx], input |-> wfTask])
    /\ execErr' = e
    /\ IF e # Nil
       THEN /\ wfPc' = "done"
            /\ wfRet' = Abort(e)
            /\ wfFailed' = TRUE
            /\ UNCHANGED <<wfIdx, wfTask, finalResult>>
       ELSE /\ wfTask' = NextTask(AgentOutput(wfAgents[wfIdx], wfTask))
            /\ finalResult' = IF wfIdx = Len(wfAgents)
                              THEN AgentOutput(wfAgents[wfIdx], wfTask)
                              ELSE finalResult
            /\ wfIdx' = wfIdx + 1
            /\ UNCHANGED <<wfPc, wfRet, wfFailed>>
    /\ UNCHANGED <<wfAgents, wfCtxDone, wfInput>>
    /\ UNCHANGED nonWorkflow

\* Execute line 58: the loop is over
WorkflowReturn ==
    /\ wfPc = "loop"
    /\ wfIdx > Len(wfAgents)
    /\ wfPc' = "done"
    /\ wfRet' = [result |-> finalResult, err |-> Nil]
    /\ UNCHANGED <<wfAgents, wfIdx, wfTask, finalResult, wfCtxDone, wfInput,
                   invocations, wfFailed, execErr>>
    /\ UNCHANGED nonWorkflow

\* the caller cancels the context of Execute
WorkflowCancel ==
    /\ wfPc = "loop"
    /\ ~wfCtxDone
    /\ wfCtxDone' = TRUE
    /\ UNCHANGED <<wfAgents, wfPc, wfIdx, wfTask, finalResult, wfRet, wfInput,
                   invocations, wfFailed, execErr>>
    /\ UNCHANGED nonWorkflow

(***************************************************************************)
(* MixtureWorkflow: unnamed/part_003                                       *)
(***************************************************************************)
MixtureAgents == {"A", "B"}
Aggregator == "G"
Newline == <<"\n">>

\* the errors Execute builds with fmt.Errorf: the message that wraps, the
\* index formatted into it, the error wrapped
Wrapped(wrap, index, e) == [wrap |-> wrap, index |-> index, err |-> e]
NoError == Wrapped("", 0, Nil)
NotReturned == Wrapped("", 0, "none")

\* NewMixtureWorkflow
NewMixtureWorkflow == mxAgents = <<>>

MixtureConstructed ==
    /\ NewMixtureWorkflow
    /\ mxPc = "idle"
    /\ mxTask = EmptyString
    /\ mxCtxDone = FALSE
    /\ mPc = <<>>
    /\ results = <<>>
    /\ errors = <<>>
    /\ mxRet = [result |-> EmptyString, err |-> NotReturned]
    /\ mxEvents = {}
    /\ memberErr = <<>>
    /\ mxInvocations = <<>>
    /\ aggregatorCalls = <<>>

\* MixtureWorkflow.AddAgent
MixtureAddAgent(a) ==
    /\ mxPc = "idle"
    /\ Len(mxAgents) < MaxMixtureAgents
    /\ mxAgents' = Append(mxAgents, a)
    /\ UNCHANGED <<mxPc, mxTask, mxCtxDone, mPc, results, errors, mxRet,
                   mxEvents, memberErr, mxInvocations, aggregatorCalls>>
    /\ UNCHANGED nonMixture

\* Execute lines 84-90: the event client is created
MixtureExecute(task, dialOk) ==
    /\ mxPc = "idle"
    /\ mxTask' = task
    /\ IF dialOk
       THEN /\ mxPc' = "start"
            /\ UNCHANGED mxRet
       ELSE /\ mxPc' = "done"
            /\ mxRet' = [result |-> EmptyString,
                         err |-> Wrapped("failed to create event client", 0, "errDial")]
    /\ UNCHANGED <<mxAgents, mxCtxDone, mPc, results, errors, mxEvents,
                   memberErr, mxInvocations, aggregatorCalls>>
    /\ UNCHANGED nonMixture

\* a call of the event server made with ctx can succeed only while ctx is
\* not cancelled
CallCanSucceed == ~mxCtxDone

\* Execute lines 92-107: workflow_start is published; if that fails Execute
\* returns, otherwise one goroutine per member agent is started
MixtureStart(pubOk) ==
    /\ mxPc = "start"
    /\ pubOk => CallCanSucceed
    /\ mxEvents' = mxEvents \cup {<<"workflow_start", 0>>}
    /\ IF pubOk
       THEN /\ mxPc' = "wait"
            /\ mPc' = [i \in 1..Len(mxAgents) |-> "launched"]
            /\ results' = [i \in 1..Len(mxAgents) |-> EmptyString]
            /\ memberErr' = [i \in 1..Len(mxAgents) |-> "none"]
            /\ errors' = <<>>
            /\ UNCHANGED mxRet
       ELSE /\ mxPc' = "done"
            /\ mxRet' = [result |-> EmptyString,
                         err |-> Wrapped("failed to publish start event", 0, "errPublish")]
            /\ UNCHANGED <<mPc, results, memberErr, errors>>
    /\ UNCHANGED <<mxAgents, mxTask, mxCtxDone, mxInvocations, aggregatorCalls>>
    /\ UNCHANGED nonMixture

\* goroutine lines 108-115: agent_start is published and the member's agent
\* is called with the task of Execute
MemberStart(i) ==
    /\ mxPc = "wait"
    /\ i \in DOMAIN mPc
    /\ mPc[i] = "launched"
    /\ mPc' = [mPc EXCEPT ![i] = "running"]
    /\ mxEvents' = mxEvents \cup {<<"agent_start", i>>}
    /\ mxInvocations' = Append(mxInvocations, [index |-> i, input |-> mxTask])
    /\ UNCHANGED <<mxAgents, mxPc, mxTask, mxCtxDone, results, errors, mxRet,
                   memberErr, aggregatorCalls>>
    /\ UNCHANGED nonMixture

\* goroutine lines 115-122: the agent returns; its error is published,
\* wrapped with the goroutine's index and sent on errors, and the goroutine
\* ends
MemberReturn(i, e) ==
    /\ mxPc = "wait"
    /\ i \in DOMAIN mPc
    /\ mPc[i] = "running"
    /\ memberErr' = [memberErr EXCEPT ![i] = e]
    /\ IF e # Nil
       THEN /\ mxEvents' = mxEvents \cup {<<"agent_error", i>>}
            /\ errors' = Append(errors, Wrapped("agent %d failed", i - 1, e))
            /\ mPc' = [mPc EXCEPT ![i] = "done"]
       ELSE /\ mPc' = [mPc EXCEPT ![i] = "sync"]
            /\ UNCHANGED <<mxEvents, errors>>
    /\ UNCHANGED <<mxAgents, mxPc, mxTask, mxCtxDone, results, mxRet,
                   mxInvocations, aggregatorCalls>>
    /\ UNCHANGED nonMixture

\* goroutine lines 124-142: the result is synchronised; if that fails the
\* error is sent on errors, otherwise agent_complete is published and the
\* result stored at the goroutine's index
MemberSync(i, syncOk) ==
    /\ mxPc = "wait"
    /\ i \in DOMAIN mPc
    /\ mPc[i] = "sync"
    /\ syncOk => CallCanSucceed
    /\ mPc' = [mPc EXCEPT ![i] = "done"]
    /\ IF syncOk
       THEN /\ mxEvents' = mxEvents \cup {<<"agent_complete", i>>}
            /\ results' = [results EXCEPT ![i] = AgentOutput(mxAgents[i], mxTask)]
            /\ UNCHANGED errors
       ELSE /\ errors' = Append(errors, Wrapped("failed to sync state", 0, "errSync"))
            /\ UNCHANGED <<mxEvents, results>>
    /\ UNCHANGED <<mxAgents, mxPc, mxTask, mxCtxDone, mxRet, memberErr,
                   mxInvocations, aggregatorCalls>>
    /\ UNCHANGED nonMixture

\* Execute line 146: wg.Wait() returns once every goroutine has ended
WaitOver == \A i \in DOMAIN mPc : mPc[i] = "done"

\* Execute lines 146-155: after the wait, an error is on the channel; the
\* first is returned
MixtureFail ==
    /\ mxPc = "wait"
    /\ WaitOver
    /\ errors # <<>>
    /\ mxEvents' = mxEvents \cup {<<"workflow_error", 0>>}
    /\ errors' = Tail(errors)
    /\ mxRet' = [result |-> EmptyString, err |-> Head(errors)]
    /\ mxPc' = "done"
    /\ UNCHANGED <<mxAgents, mxTask, mxCtxDone, mPc, results, memberErr,
                   mxInvocations, aggregatorCalls>>
    /\ UNCHANGED nonMixture

\* stringSliceToString
RECURSIVE stringSliceToString(_)
stringSliceToString(slice) ==
    IF slice = <<>> THEN EmptyString
    ELSE IF Len(slice) = 1 THEN Head(slice)
    ELSE Head(slice) \o Newline \o stringSliceToString(Tail(slice))

\* Execute line 165
AggregatedInput(slice) ==
    <<"Aggregate the following results:">> \o Newline \o stringSliceToString(slice)

\* Execute lines 146-180: after the wait, no error is on the channel; the
\* aggregator runs on the results and its output, or its error wrapped, is
\* returned
MixtureAggregate(e) ==
    /\ mxPc = "wait"
    /\ WaitOver
    /\ errors = <<>>
    /\ aggregatorCalls' = Append(aggregatorCalls, AggregatedInput(results))
    /\ IF e # Nil
       THEN /\ mxEvents' = mxEvents \cup {<<"aggregation_start", 0>>, <<"aggregation_error", 0>>}
            /\ mxRet' = [result |-> EmptyString,
                         err |-> Wrapped("aggregation failed", 0, e)]
       ELSE /\ mxEvents' = mxEvents \cup {<<"aggregation_start", 0>>, <<"workflow_complete", 0>>}
            /\ mxRet' = [result |-> AgentOutput(Aggregator, AggregatedInput(results)),
                         err |-> NoError]
    /\ mxPc' = "done"
    /\ UNCHANGED <<mxAgents, mxTask, mxCtxDone, mPc, results, errors, memberErr,
                   mxInvocations>>
    /\ UNCHANGED nonMixture

\* the caller cancels the context of Execute
MixtureCancel ==
    /\ mxPc \in {"start", "wait"}
    /\ ~mxCtxDone
    /\ mxCtxDone' = TRUE
    /\ UNCHANGED <<mxAgents, mxPc, mxTask, mPc, results, errors, mxRet,
                   mxEvents, memberErr, mxInvocations, aggregatorCalls>>
    /\ UNCHANGED nonMixture

(***************************************************************************)
(* StateStore.Watch: unnamed/part_007                                      *)
(***************************************************************************)
\* Watch line 58: make(chan StateEntry, 1)
UpdatesCap == 1

\* no entry
NoEntry == StateEntry("none", 0, 0)

\* no Watch call has been made
WatchConstructed ==
    /\ watchPc = "idle"
    /\ watchKey = "none"
    /\ updates = <<>>
    /\ closed = FALSE
    /\ lastVersion = -1
    /\ watchEntry = NoEntry
    /\ watchCtxDone = FALSE
    /\ emitted = <<>>
    /\ initialEntry = NoEntry

\* Watch line 70: var lastVersion int64 = -1
FirstLastVersion(key) == -1

\* Watch lines 57-72 and 85: the channel is made, the current entry of the
\* key, if any, is sent on it, and the goroutine is started
Watch(key) ==
    /\ watchPc = "idle"
    /\ watchKey' = key
    /\ IF key \in DOMAIN states
       THEN /\ updates' = <<states[key]>>
            /\ emitted' = <<states[key]>>
            /\ initialEntry' = states[key]
       ELSE UNCHANGED <<updates, emitted, initialEntry>>
    /\ lastVersion' = FirstLastVersion(key)
    /\ watchPc' = "select"
    /\ UNCHANGED <<closed, watchEntry, watchCtxDone>>
    /\ UNCHANGED nonWatch

\* goroutine lines 76-78: the ticker fires; the key is read and, if its
\* version is above lastVersion, the entry is about to be sent
WatchTick ==
    /\ watchPc = "select"
    /\ IF watchKey \in DOMAIN states /\ states[watchKey].Version > lastVersion
       THEN /\ lastVersion' = states[watchKey].Version
            /\ watchEntry' = states[watchKey]
            /\ watchPc' = "send"
       ELSE UNCHANGED <<lastVersion, watchEntry, watchPc>>
    /\ UNCHANGED <<watchKey, updates, closed, watchCtxDone, emitted, initialEntry>>
    /\ UNCHANGED nonWatch

\* goroutine line 79: updates <- entry, possible while the buffer has room
WatchSend ==
    /\ watchPc = "send"
    /\ Len(updates) < UpdatesCap
    /\ updates' = Append(updates, watchEntry)
    /\ emitted' = Append(emitted, watchEntry)
    /\ watchPc' = "select"
    /\ UNCHANGED <<watchKey, closed, lastVersion, watchEntry, watchCtxDone, initialEntry>>
    /\ UNCHANGED nonWatch

\* goroutine lines 74-75 with the deferred close(updates)
WatchCtxDone ==
    /\ watchPc = "select"
    /\ watchCtxDone
    /\ watchPc' = "returned"
    /\ closed' = TRUE
    /\ UNCHANGED <<watchKey, updates, lastVersion, watchEntry, watchCtxDone, emitted,
                   initialEntry>>
    /\ UNCHANGED nonWatch

\* the caller cancels the context of Watch
WatchCancel ==
    /\ watchPc \in {"select", "send"}
    /\ ~watchCtxDone
    /\ watchCtxDone' = TRUE
    /\ UNCHANGED <<watchPc, watchKey, updates, closed, lastVersion, watchEntry, emitted,
                   initialEntry>>
    /\ UNCHANGED nonWatch

\* the consumer receives from the channel
WatchReceive ==
    /\ updates # <<>>
    /\ updates' = Tail(updates)
    /\ UNCHANGED <<watchPc, watchKey, closed, lastVersion, watchEntry, watchCtxDone,
                   emitted, initialEntry>>
    /\ UNCHANGED nonWatch

(***************************************************************************)
(* AgentServer.SyncState: unnamed/part_006                                 *)
(***************************************************************************)
\* NewAgentServer: no SyncState call in progress
SyncConstructed ==
    /\ syncPc = [c \in Callers |-> "idle"]
    /\ syncReq = [c \in Callers |-> [Key |-> "none", Value |-> "none"]]
    /\ syncRet = [c \in Callers |-> [Success |-> FALSE, Version |-> 0]]
    /\ written = [c \in Callers |-> 0]
    /\ syncLog = <<>>

\* SyncState line 91: s.stateStore.Set(req.Key, req.Value), the body of Set
\* under the store's lock
SyncStateSet(c, key, value) ==
    /\ syncPc[c] \in {"idle", "done"}
    /\ setCount[key] < MaxSets
    /\ states' = MapPut(states, key, StateEntry(value, NextVersion(key), now))
    /\ setCount' = [setCount EXCEPT ![key] = @ + 1]
    /\ syncReq' = [syncReq EXCEPT ![c] = [Key |-> key, Value |-> value]]
    /\ written' = [written EXCEPT ![c] = NextVersion(key)]
    /\ syncPc' = [syncPc EXCEPT ![c] = "get"]
    /\ UNCHANGED <<now, got, syncRet, syncLog>>
    /\ UNCHANGED nonStoreSync

\* SyncState lines 93-97: s.stateStore.Get(req.Key) under the store's read
\* lock, and the response built from the entry read
SyncStateGet(c) ==
    /\ syncPc[c] = "get"
    /\ syncRet' = [syncRet EXCEPT ![c] =
                      [Success |-> TRUE, Version |-> states[syncReq[c].Key].Version]]
    /\ syncLog' = Append(syncLog, [Key |-> syncReq[c].Key,
                                   Version |-> states[syncReq[c].Key].Version])
    /\ syncPc' = [syncPc EXCEPT ![c] = "done"]
    /\ UNCHANGED <<now, states, got, setCount, syncReq, written>>
    /\ UNCHANGED nonStoreSync

(***************************************************************************)
(* The heartbeat monitor: src/pkg/distributed/cluster.go                   *)
(***************************************************************************)
\* ClusterConfig.NodeTimeout, in units of the clock
NodeTimeout == 1

\* NewCluster line 42: the monitor is started and waits for its first tick
MonitorConstructed ==
    /\ monPc = "wait"
    /\ monToVisit = {}
    /\ monCur = "nil"
    /\ monTicks = 0
    /\ monSeen = <<>>
    /\ monMarked = <<>>

\* monitorHeartbeats lines 173-175: the ticker fires, c.mu is locked and the
\* range over c.nodes begins
MonitorTick ==
    /\ monPc = "wait"
    /\ schedPc # "scan"
    /\ monTicks < MaxMonitorTicks
    /\ monTicks' = monTicks + 1
    /\ monPc' = "tick"
    /\ monToVisit' = DOMAIN nodes
    /\ monSeen' = <<>>
    /\ monMarked' = [id \in DOMAIN nodes |-> 0]
    /\ UNCHANGED monCur
    /\ UNCHANGED <<now, clusterVars>>
    /\ UNCHANGED nonClusterMonitor

\* the monitor taking a node at exactly NodeTimeout for timed out
TimedOutAtTimeout(n) == now - lastPing[n] >= NodeTimeout

\* monitorHeartbeats line 176: time.Since(node.lastPing) > c.config.NodeTimeout
TimedOut(n) == now - lastPing[n] > NodeTimeout

\* monitorHeartbeats lines 175-176: one iteration of the range, in the map's
\* arbitrary order; lastPing is read without n.mu
MonitorCheck(id) ==
    /\ monPc = "tick"
    /\ monCur = "nil"
    /\ id \in monToVisit
    /\ monToVisit' = monToVisit \ {id}
    /\ monSeen' = MapPut(monSeen, id, now - lastPing[nodes[id]])
    /\ monCur' = IF TimedOut(nodes[id]) THEN id ELSE "nil"
    /\ UNCHANGED <<monPc, monTicks, monMarked>>
    /\ UNCHANGED <<now, clusterVars>>
    /\ UNCHANGED nonClusterMonitor

\* monitorHeartbeats lines 177-180: the status is written without n.mu and
\* node_unhealthy is published, its result ignored
MonitorMark ==
    /\ monPc = "tick"
    /\ monCur # "nil"
    /\ status' = [status EXCEPT ![nodes[monCur]] = StatusUnhealthy]
    /\ monMarked' = [monMarked EXCEPT ![monCur] = @ + 1]
    /\ monCur' = "nil"
    /\ UNCHANGED <<monPc, monToVisit, monTicks, monSeen>>
    /\ UNCHANGED <<now, nodes, load, agents, lastPing, published, regRet,
                   inserts, agentRegs, schedPc, requirements, toVisit,
                   bestNode, lowestLoad, schedRet, observed, tasks, agentCalls>>
    /\ UNCHANGED nonClusterMonitor

\* monitorHeartbeats lines 182-184: the range is over, c.mu is unlocked and
\* the monitor waits for the next tick
MonitorTickEnd ==
    /\ monPc = "tick"
    /\ monCur = "nil"
    /\ monToVisit = {}
    /\ monPc' = "wait"
    /\ UNCHANGED <<monToVisit, monCur, monTicks, monSeen, monMarked>>
    /\ UNCHANGED <<now, clusterVars>>
    /\ UNCHANGED nonClusterMonitor

\* a step of the monitor
MonitorStep ==
    \/ MonitorTick
    \/ \E id \in NodeIds : MonitorCheck(id)
    \/ MonitorMark
    \/ MonitorTickEnd

(***************************************************************************)
(* Cluster.Close (src/pkg/distributed/cluster.go)                          *)
(***************************************************************************)
\* NewCluster: the connections are open, Close has not been called
ShutdownConstructed ==
    /\ connClosed = FALSE
    /\ closeRet = "none"

\* Close lines 187-208: under c.mu every node and the cluster's client are
\* closed and the collected errors returned; closing a connection again
\* is an error.  Nothing here is addressed to the monitor goroutine.
ClusterClose(ok) ==
    /\ ~MonitorHoldsLock
    /\ schedPc # "scan"
    /\ connClosed => ~ok
    /\ connClosed' = TRUE
    /\ closeRet' = IF ok THEN "nil" ELSE "ErrorsClosing"
    /\ UNCHANGED nonShutdown

\* the goroutine started by NewCluster has left monitorHeartbeats
MonitorReturned == monPc = "returned"

(***************************************************************************)
(* Specifications, one per component                                       *)
(***************************************************************************)
InitCB ==
    /\ \E th \in 1..MaxThreshold, to \in 0..MaxResetTimeout :
           NewCircuitBreaker(th, to)
    /\ CallersIdle
    /\ now = 0
    /\ StoreConstructed
    /\ BusConstructed
    /\ ClusterConstructed
    /\ EventsConstructed
    /\ RetryConstructed
    /\ LimiterConstructed
    /\ WorkflowConstructed
    /\ MixtureConstructed
    /\ WatchConstructed
    /\ SyncConstructed
    /\ MonitorConstructed
    /\ ShutdownConstructed

NextCB ==
    \/ \E p \in Callers, o \in {"allow", "exec"} : AllowRequest(p, o)
    \/ \E p \in Callers : AllowRequestWrite(p)
    \/ \E p \in Callers : InvokeFn(p)
    \/ \E p \in Callers, e \in FnErrors : RecordResult(p, e)
    \/ \E p \in Callers : ExecuteRecord(p)
    \/ \E p \in Callers : Return(p)
    \/ Tick

SpecCB == InitCB /\ [][NextCB]_vars

InitStore ==
    /\ StoreConstructed
    /\ now = 0
    /\ CBConstructed
    /\ BusConstructed
    /\ ClusterConstructed
    /\ EventsConstructed
    /\ RetryConstructed
    /\ LimiterConstructed
    /\ WorkflowConstructed
    /\ MixtureConstructed
    /\ WatchConstructed
    /\ SyncConstructed
    /\ MonitorConstructed
    /\ ShutdownConstructed

NextStore ==
    \/ \E k \in Keys, v \in Values : Set(k, v)
    \/ \E k \in Keys : Get(k)
    \/ Tick

SpecStore == InitStore /\ [][NextStore]_vars

InitBus ==
    /\ BusConstructed
    /\ now = 0
    /\ CBConstructed
    /\ StoreConstructed
    /\ ClusterConstructed
    /\ EventsConstructed
    /\ RetryConstructed
    /\ LimiterConstructed
    /\ WorkflowConstructed
    /\ MixtureConstructed
    /\ WatchConstructed
    /\ SyncConstructed
    /\ MonitorConstructed
    /\ ShutdownConstructed

NextBus ==
    \/ \E t \in Topics : Subscribe(t)
    \/ \E p \in Publishers, t \in Topics : PublishCall(p, t)
    \/ \E p \in Publishers : PublishCtxDone(p)
    \/ \E p \in Publishers : PublishDeliver(p)
    \/ \E p \in Publishers : PublishSendOnClosed(p)
    \/ \E p \in Publishers : PublishSkipFull(p)
    \/ \E p \in Publishers : PublishReturn(p)
    \/ \E p \in Publishers : CancelCtx(p)
    \/ \E c \in Chans : StreamReceive(c)
    \/ \E c \in Chans : StreamEnd(c)

SpecBus == InitBus /\ [][NextBus]_vars

InitCluster ==
    /\ ClusterConstructed
    /\ now = 0
    /\ CBConstructed
    /\ StoreConstructed
    /\ BusConstructed
    /\ EventsConstructed
    /\ RetryConstructed
    /\ LimiterConstructed
    /\ WorkflowConstructed
    /\ MixtureConstructed
    /\ WatchConstructed
    /\ SyncConstructed
    /\ MonitorConstructed
    /\ ShutdownConstructed

NextCluster ==
    \/ \E n \in NodeRefs, ok \in BOOLEAN : RegisterNode(n, ok)
    \/ \E n \in NodeRefs, a \in AgentNames, ok \in BOOLEAN :
          agentRegs < MaxAgentRegs /\ RegisterAgent(n, a, ok)
    \/ \E n \in NodeRefs : UpdateStatus(n)
    \/ \E a \in AgentNames \cup {NoAgentID}, tg \in TagSets : ScheduleTask(a, tg)
    \/ \E id \in NodeIds : ScanNode(id)
    \/ ScanReturn
    \/ \E ok \in BOOLEAN : ExecuteTaskStart(ok)
    \/ \E ok \in BOOLEAN : ExecuteTaskRun(ok)
    \/ ScheduleReturn

SpecCluster == InitCluster /\ [][NextCluster]_vars

\* the cluster with repeated registrations on the node next to its capacity
\* and on the least loaded one
RegisteringNodes == {"n3", "n4"}

NextNode ==
    \/ \E n \in NodeRefs, ok \in BOOLEAN : RegisterNode(n, ok)
    \/ \E n \in RegisteringNodes, a \in AgentNames, ok \in BOOLEAN :
          agentRegs < MaxNodeRegs /\ RegisterAgent(n, a, ok)
    \/ \E n \in NodeRefs : UpdateStatus(n)
    \/ \E a \in AgentNames \cup {NoAgentID}, tg \in TagSets : ScheduleTask(a, tg)
    \/ \E id \in NodeIds : ScanNode(id)
    \/ ScanReturn
    \/ \E ok \in BOOLEAN : ExecuteTaskStart(ok)
    \/ \E ok \in BOOLEAN : ExecuteTaskRun(ok)
    \/ ScheduleReturn

SpecNode == InitCluster /\ [][NextNode]_vars

InitEvents ==
    /\ EventsConstructed
    /\ now = 0
    /\ CBConstructed
    /\ StoreConstructed
    /\ BusConstructed
    /\ ClusterConstructed
    /\ RetryConstructed
    /\ LimiterConstructed
    /\ WorkflowConstructed
    /\ MixtureConstructed
    /\ WatchConstructed
    /\ SyncConstructed
    /\ MonitorConstructed
    /\ ShutdownConstructed

NextEvents ==
    \/ \E t \in EventKinds : RegisterHandler(t)
    \/ \E t \in EventKinds : EmitEvent(t)
    \/ \E i \in 1..MaxHandlers : HandlerCall(i)
    \/ \E i \in 1..MaxHandlers, e \in FnErrors : HandlerReturn(i, e)
    \/ EmitReturn

SpecEvents == InitEvents /\ [][NextEvents]_vars

InitRetry ==
    /\ RetryConstructed
    /\ now = 0
    /\ CBConstructed
    /\ StoreConstructed
    /\ BusConstructed
    /\ ClusterConstructed
    /\ EventsConstructed
    /\ LimiterConstructed
    /\ WorkflowConstructed
    /\ MixtureConstructed
    /\ WatchConstructed
    /\ SyncConstructed
    /\ MonitorConstructed
    /\ ShutdownConstructed

NextRetry ==
    \/ \E config \in RetryConfigs : RetryCall(config)
    \/ \E e \in FnErrors, viaTimer \in BOOLEAN : RetryAttempt(e, viaTimer)
    \/ RetryWaitDone
    \/ RetryWaitCancelled
    \/ RetryExhausted
    \/ RetryCancel

SpecRetry == InitRetry /\ [][NextRetry]_vars

InitLimiter ==
    /\ \E r \in Rates, size \in BucketSizes : NewRateLimiter(r, size)
    /\ LimiterIdle
    /\ now = 0
    /\ CBConstructed
    /\ StoreConstructed
    /\ BusConstructed
    /\ ClusterConstructed
    /\ EventsConstructed
    /\ RetryConstructed
    /\ WorkflowConstructed
    /\ MixtureConstructed
    /\ WatchConstructed
    /\ SyncConstructed
    /\ MonitorConstructed
    /\ ShutdownConstructed

\* the steps of the WaitN call
WaitNStep ==
    \/ WaitNReturn
    \/ WaitNCtxDone
    \/ WaitNAllow
    \/ WaitNWake

NextLimiter ==
    \/ Allow
    \/ \E n \in 1..MaxWaitN : WaitNCall(n)
    \/ WaitNStep
    \/ WaitNCancel
    \/ Elapse

SpecLimiter == InitLimiter /\ [][NextLimiter]_vars

\* the WaitN goroutine is scheduled and time passes
SpecLimiterFair ==
    InitLimiter /\ [][NextLimiter]_vars /\ WF_vars(WaitNStep) /\ WF_vars(Elapse)

InitWorkflow ==
    /\ WorkflowConstructed
    /\ now = 0
    /\ CBConstructed
    /\ StoreConstructed
    /\ BusConstructed
    /\ ClusterConstructed
    /\ EventsConstructed
    /\ RetryConstructed
    /\ LimiterConstructed
    /\ MixtureConstructed
    /\ WatchConstructed
    /\ SyncConstructed
    /\ MonitorConstructed
    /\ ShutdownConstructed

NextWorkflow ==
    \/ \E a \in WorkflowAgents : AddAgent(a)
    \/ \E t \in WorkflowTasks : WorkflowExecute(t)
    \/ WorkflowCtxDone
    \/ \E e \in FnErrors : WorkflowAgentStep(e)
    \/ WorkflowReturn
    \/ WorkflowCancel

SpecWorkflow == InitWorkflow /\ [][NextWorkflow]_vars

InitMixture ==
    /\ MixtureConstructed
    /\ now = 0
    /\ CBConstructed
    /\ StoreConstructed
    /\ BusConstructed
    /\ ClusterConstructed
    /\ EventsConstructed
    /\ RetryConstructed
    /\ LimiterConstructed
    /\ WorkflowConstructed
    /\ WatchConstructed
    /\ SyncConstructed
    /\ MonitorConstructed
    /\ ShutdownConstructed

NextMixture ==
    \/ \E a \in MixtureAgents : MixtureAddAgent(a)
    \/ \E t \in WorkflowTasks, dialOk \in BOOLEAN : MixtureExecute(t, dialOk)
    \/ \E pubOk \in BOOLEAN : MixtureStart(pubOk)
    \/ \E i \in 1..MaxMixtureAgents : MemberStart(i)
    \/ \E i \in 1..MaxMixtureAgents, e \in FnErrors : MemberReturn(i, e)
    \/ \E i \in 1..MaxMixtureAgents, syncOk \in BOOLEAN : MemberSync(i, syncOk)
    \/ MixtureFail
    \/ \E e \in FnErrors : MixtureAggregate(e)
    \/ MixtureCancel

SpecMixture == InitMixture /\ [][NextMixture]_vars

InitWatch ==
    /\ WatchConstructed
    /\ now = 0
    /\ CBConstructed
    /\ StoreConstructed
    /\ BusConstructed
    /\ ClusterConstructed
    /\ EventsConstructed
    /\ RetryConstructed
    /\ LimiterConstructed
    /\ WorkflowConstructed
    /\ MixtureConstructed
    /\ SyncConstructed
    /\ MonitorConstructed
    /\ ShutdownConstructed

NextWatch ==
    \/ \E k \in Keys, v \in Values : Set(k, v)
    \/ \E k \in Keys : Watch(k)
    \/ WatchTick
    \/ WatchSend
    \/ WatchCtxDone
    \/ WatchCancel
    \/ WatchReceive

SpecWatch == InitWatch /\ [][NextWatch]_vars

\* the watch goroutine is scheduled, and a select with both cases ready
\* takes each of them sooner or later
SpecWatchFair ==
    InitWatch /\ [][NextWatch]_vars /\ WF_vars(WatchSend) /\ SF_vars(WatchCtxDone)

InitSync ==
    /\ SyncConstructed
    /\ now = 0
    /\ CBConstructed
    /\ StoreConstructed
    /\ BusConstructed
    /\ ClusterConstructed
    /\ EventsConstructed
    /\ RetryConstructed
    /\ LimiterConstructed
    /\ WorkflowConstructed
    /\ MixtureConstructed
    /\ WatchConstructed
    /\ MonitorConstructed
    /\ ShutdownConstructed

NextSync ==
    \/ \E c \in Callers, k \in Keys, v \in Values : SyncStateSet(c, k, v)
    \/ \E c \in Callers : SyncStateGet(c)

SpecSync == InitSync /\ [][NextSync]_vars

\* the node objects registered with the monitored cluster, the agent and
\* the requirements of the tasks scheduled on it
MonitoredNodes == {"n2", "n4"}
AgentHosts == {"n2"}

InitMonitor ==
    /\ MonitorConstructed
    /\ now = 0
    /\ CBConstructed
    /\ StoreConstructed
    /\ BusConstructed
    /\ ClusterConstructed
    /\ EventsConstructed
    /\ RetryConstructed
    /\ LimiterConstructed
    /\ WorkflowConstructed
    /\ MixtureConstructed
    /\ WatchConstructed
    /\ SyncConstructed
    /\ ShutdownConstructed

NextMonitor ==
    \/ Tick
    \/ \E n \in MonitoredNodes : RegisterNode(n, TRUE)
    \/ \E id \in DOMAIN nodes : UpdateStatus(nodes[id])
    \/ MonitorTick
    \/ \E id \in NodeIds : MonitorCheck(id)
    \/ MonitorMark
    \/ MonitorTickEnd

SpecMonitor == InitMonitor /\ [][NextMonitor]_vars

\* the monitor next to the scheduler
NextMonitorSchedule ==
    \/ Tick
    \/ \E n \in MonitoredNodes : RegisterNode(n, TRUE)
    \/ \E n \in AgentHosts, a \in AgentNames :
          agentRegs < MaxAgentRegs /\ RegisterAgent(n, a, TRUE)
    \/ \E id \in DOMAIN nodes : UpdateStatus(nodes[id])
    \/ \E a \in AgentNames \cup {NoAgentID} : ScheduleTask(a, {})
    \/ \E id \in NodeIds : ScanNode(id)
    \/ ScanReturn
    \/ ExecuteTaskStart(TRUE)
    \/ \E agentOk \in BOOLEAN : ExecuteTaskRun(agentOk)
    \/ ScheduleReturn
    \/ MonitorTick
    \/ \E id \in NodeIds : MonitorCheck(id)
    \/ MonitorMark
    \/ MonitorTickEnd

SpecMonitorSchedule == InitMonitor /\ [][NextMonitorSchedule]_vars

\* the monitor next to Close: the ticker keeps firing and a goroutine that
\* can run does run; publications on a closed connection fail
InitShutdown ==
    /\ ShutdownConstructed
    /\ MonitorConstructed
    /\ now = 0
    /\ CBConstructed
    /\ StoreConstructed
    /\ BusConstructed
    /\ ClusterConstructed
    /\ EventsConstructed
    /\ RetryConstructed
    /\ LimiterConstructed
    /\ WorkflowConstructed
    /\ MixtureConstructed
    /\ WatchConstructed
    /\ SyncConstructed

NextShutdown ==
    \/ Tick
    \/ \E n \in MonitoredNodes : RegisterNode(n, ~connClosed)
    \/ \E id \in DOMAIN nodes : UpdateStatus(nodes[id])
    \/ \E ok \in BOOLEAN : ClusterClose(ok)
    \/ MonitorTick
    \/ \E id \in NodeIds : MonitorCheck(id)
    \/ MonitorMark
    \/ MonitorTickEnd

SpecShutdown == InitShutdown /\ [][NextShutdown]_vars /\ WF_vars(MonitorStep)

\* tasks that name no agent, on nodes whose agents may be registered under
\* any name, the empty one included
RegisteredNames == AgentNames \cup {NoAgentID}

NextEmptyAgent ==
    \/ \E n \in RegisteringNodes : RegisterNode(n, TRUE)
    \/ \E n \in RegisteringNodes, a \in RegisteredNames, ok \in BOOLEAN :
          agentRegs < MaxNodeRegs /\ RegisterAgent(n, a, ok)
    \/ \E n \in RegisteringNodes : UpdateStatus(n)
    \/ \E tg \in TagSets : ScheduleTask(NoAgentID, tg)
    \/ \E id \in NodeIds : ScanNode(id)
    \/ ScanReturn
    \/ \E ok \in BOOLEAN : ExecuteTaskStart(ok)
    \/ \E ok \in BOOLEAN : ExecuteTaskRun(ok)
    \/ ScheduleReturn

SpecEmptyAgent == InitCluster /\ [][NextEmptyAgent]_vars

\* Retry called with any configuration, MaxAttempts below 1 included
NextRetryAny ==
    \/ \E config \in RetryConfigs \cup NoAttemptConfigs : RetryCall(config)
    \/ \E e \in FnErrors, viaTimer \in BOOLEAN : RetryAttempt(e, viaTimer)
    \/ RetryWaitDone
    \/ RetryWaitCancelled
    \/ RetryExhausted
    \/ RetryCancel

SpecRetryAny == InitRetry /\ [][NextRetryAny]_vars

(***************************************************************************)
(* Circuit breaker: properties                                             *)
(***************************************************************************)

\* a step in which some RecordResult call completes, with a failure / success
RecordedFailure == records' = records + 1 /\ lastRecorded' # "nil"
RecordedSuccess == records' = records + 1 /\ lastRecorded' = "nil"
\* a step in which caller p performs AllowRequest's write of cb.state
WritesInAllowRequest == \E p \in Callers : pc[p] = "ar_write" /\ pc'[p] # "ar_write"
\* a step in which caller p starts operation o (AllowRequest reads cb.state)
Starts(p, o) == pc[p] = "idle" /\ pc'[p] # "idle" /\ op'[p] = o

\* C1: under any interleaving of AllowRequest and RecordResult calls the
\* state changes only along Closed->Open (a recorded failure brings
\* failureCount to at least failureThreshold), Open->HalfOpen (inside
\* AllowRequest, resetTimeout elapsed since lastFailure when the state is
\* written), HalfOpen->Closed (recorded success), HalfOpen->Open (recorded
\* failure).
C1_OnlySpecifiedEdges ==
    [][state' # state =>
          \/ /\ state = "Closed" /\ state' = "Open"
             /\ RecordedFailure /\ failureCount' >= failureThreshold
          \/ /\ state = "Open" /\ state' = "HalfOpen"
             /\ WritesInAllowRequest
             /\ now - lastFailure > resetTimeout
          \/ state = "HalfOpen" /\ state' = "Closed" /\ RecordedSuccess
          \/ state = "HalfOpen" /\ state' = "Open" /\ RecordedFailure]_vars

\* C2: Execute(fn) started while the state is Open and resetTimeout has not
\* elapsed since lastFailure returns ErrCircuitOpen, does not invoke fn and
\* leaves state, failureCount and lastFailure unchanged; started in any other
\* case it invokes fn exactly once, records fn's outcome through RecordResult
\* and returns exactly the error fn returned.
C2_ExecuteStep(p) ==
    /\ Starts(p, "exec") =>
          IF state = "Open" /\ now - lastFailure <= resetTimeout
          THEN /\ pc'[p] = "done" /\ ret'[p] = "ErrCircuitOpen"
               /\ fnCalls'[p] = 0
               /\ UNCHANGED <<state, failureCount, lastFailure>>
          ELSE pc'[p] \in {"ar_write", "fn"} /\ fnCalls'[p] = 0
    /\ (op[p] = "exec" /\ pc[p] = "ar_write" /\ pc'[p] # "ar_write") => pc'[p] = "fn"
    /\ (op[p] = "exec" /\ pc[p] = "fn" /\ pc'[p] # "fn") =>
          /\ pc'[p] = "record" /\ fnCalls'[p] = 1 /\ err'[p] \in FnErrors
          /\ UNCHANGED <<state, failureCount, lastFailure, records>>
    /\ (op[p] = "exec" /\ pc[p] = "record" /\ pc'[p] # "record") =>
          /\ pc'[p] = "done" /\ fnCalls'[p] = 1
          /\ records' = records + 1 /\ lastRecorded' = err[p]
          /\ ret'[p] = err[p]
C2_Execute == [][\A p \in Callers : C2_ExecuteStep(p)]_vars
C2_Witness ==
    \E p, q \in Callers :
        /\ pc[p] = "done" /\ op[p] = "exec" /\ ret[p] = "errB" /\ fnCalls[p] = 1
        /\ pc[q] = "done" /\ op[q] = "exec" /\ ret[q] = "ErrCircuitOpen"
        /\ fnCalls[q] = 0

\* C3: for a breaker created with failureThreshold = 3, after three recorded
\* failures in a row the state is Open and every AllowRequest made while
\* resetTimeout has not elapsed since the last failure returns false; the
\* first AllowRequest made after it has elapsed sets the state to HalfOpen and
\* returns true.
ThreeFailures == failureThreshold = 3 /\ records = 3 /\ failureCount = 3
C3_Step(p) ==
    /\ (ThreeFailures /\ Starts(p, "allow") /\ now - lastFailure <= resetTimeout) =>
          pc'[p] = "done" /\ ret'[p] = "false" /\ state' = "Open"
    /\ (ThreeFailures /\ Starts(p, "allow") /\ now - lastFailure > resetTimeout
          /\ state = "Open") =>
          pc'[p] = "ar_write" /\ state' = "Open"
    /\ (ThreeFailures /\ op[p] = "allow" /\ pc[p] = "ar_write" /\ pc'[p] # "ar_write") =>
          pc'[p] = "done" /\ ret'[p] = "true" /\ state' = "HalfOpen"
C3_ThreeFailuresOpen ==
    /\ [](ThreeFailures /\ now - lastFailure <= resetTimeout => state = "Open")
    /\ [][\A p \in Callers : C3_Step(p)]_vars
C3_Witness ==
    /\ ThreeFailures /\ state = "HalfOpen"
    /\ \E p \in Callers : pc[p] = "done" /\ op[p] = "allow" /\ ret[p] = "true"
    /\ \E q \in Callers : pc[q] = "done" /\ op[q] = "allow" /\ ret[q] = "false"

\* C4: while the breaker is HalfOpen a recorded failure sets the state to Open
\* whatever failureCount and failureThreshold are, and a recorded success sets
\* the state to Closed and failureCount to 0.
C4_HalfOpenTrial ==
    [][state = "HalfOpen" =>
          /\ RecordedFailure => state' = "Open"
          /\ RecordedSuccess => state' = "Closed" /\ failureCount' = 0]_vars
C4_Witness ==
    /\ state = "Open" /\ lastRecorded # "nil" /\ lastRecorded # "none"
    /\ failureCount < failureThreshold

(***************************************************************************)
(* StateStore: properties                                                  *)
(***************************************************************************)
\* the stored version of a key, 0 while the key has no entry
VersionOf(m, k) == IF k \in DOMAIN m THEN m[k].Version ELSE 0

\* C5: for every key the stored Version equals the number of Set calls
\* completed on that key (1 after the first), each Set raises it by exactly 1,
\* it never decreases, and Set calls on other keys do not change it.
C5_VersionCountsSets ==
    /\ [](\A k \in Keys : VersionOf(states, k) = setCount[k])
    /\ [][\A k \in Keys :
            /\ VersionOf(states', k) >= VersionOf(states, k)
            /\ setCount'[k] = setCount[k] + 1 =>
                  /\ VersionOf(states', k) = VersionOf(states, k) + 1
                  /\ \A j \in Keys \ {k} :
                        VersionOf(states', j) = VersionOf(states, j)]_vars
C5_Witness ==
    /\ VersionOf(states, "k1") = 3 /\ setCount["k1"] = 3
    /\ VersionOf(states, "k2") = 1 /\ setCount["k2"] = 1

(***************************************************************************)
(* MessageBus: properties                                                  *)
(***************************************************************************)
\* the topic a channel was subscribed to
TopicOfChan(c) == CHOOSE t \in Topics : c \in SeqRange(subscribers[t])

\* a step of publisher p's Publish call during which its context is live
PublishStepLive(p) ==
    /\ pubPc[p] = "send" /\ ~ctxDone[p] /\ ~ctxDone'[p]
    /\ pubPc'[p] # pubPc[p] \/ pubIdx'[p] # pubIdx[p]

\* C9: Publish(topic, msg) with a context that is not cancelled enqueues msg
\* exactly once on the channel of every subscriber of the topic whose buffer
\* is not full, skips the full ones without an error, delivers nothing to
\* subscribers of other topics or to later subscribers, never blocks and
\* returns nil.
C9_PublishStep(p) ==
    /\ (pubPc[p] # "send" /\ pubPc'[p] = "send") =>
          /\ pubSnap'[p] = subscribers[pubTopic'[p]]
          /\ pubIdx'[p] = 1
          /\ chanBuf' = chanBuf
    /\ (PublishStepLive(p) /\ pubIdx[p] <= Len(pubSnap[p])) =>
          /\ pubPc'[p] = "send"
          /\ pubIdx'[p] = pubIdx[p] + 1
          /\ LET c == pubSnap[p][pubIdx[p]] IN
               chanBuf' = [chanBuf EXCEPT ![c] =
                              IF Len(@) < ChanCap THEN Append(@, pubMsg[p]) ELSE @]
    /\ (PublishStepLive(p) /\ pubIdx[p] > Len(pubSnap[p])) =>
          /\ pubPc'[p] = "done" /\ pubRet'[p] = "nil"
          /\ chanBuf' = chanBuf
C9_PublishBestEffort ==
    /\ [][\A p \in Publishers : C9_PublishStep(p)]_vars
    /\ [](\A p \in Publishers : pubPc[p] # "panic")

\* C10: the messages one subscriber channel receives are messages published
\* on its topic, each at most once, and two of them whose Publish calls do not
\* overlap are received in the order of those calls.
C10_ReceivedInPublishOrder ==
    \A c \in 1..Len(recvLog) :
        /\ \A i \in 1..Len(recvLog[c]) :
              /\ recvLog[c][i] \in 1..Len(msgMeta)
              /\ msgMeta[recvLog[c][i]].topic = TopicOfChan(c)
        /\ \A i, j \in 1..Len(recvLog[c]) :
              i < j => /\ recvLog[c][i] # recvLog[c][j]
                       /\ recvLog[c][j] \notin msgMeta[recvLog[c][i]].before
C10_Witness ==
    \E c \in 1..Len(recvLog) :
        /\ recvLog[c] = <<1, 2>> /\ chanBuf[c] = <<>>
        /\ Len(msgMeta) = 3 /\ msgMeta[3].topic = TopicOfChan(c)
        /\ 3 \in completed

(***************************************************************************)
(* Properties of the cluster                                               *)
(***************************************************************************)
\* a RegisterNode call for an id that is taken fails, keeps the map and
\* publishes nothing; no call replaces or removes an entry
C6_RegisterStep(n) ==
    (\E ok \in BOOLEAN : RegisterNode(n, ok)) =>
        /\ ConfigID(n) \in DOMAIN nodes =>
              /\ regRet' = [call |-> "RegisterNode", err |-> "AlreadyExists"]
              /\ nodes' = nodes
              /\ published' = published
        /\ \A id \in DOMAIN nodes : id \in DOMAIN nodes' /\ nodes'[id] = nodes[id]

\* C6: RegisterNode with an id that is already registered fails with
\* AlreadyExists, leaves the registered node in place and publishes no event;
\* over any interleaving of registrations at most one call per id inserts, so
\* every id maps to at most one node.
C6_UniqueNodeId ==
    /\ [](\A id \in NodeIds : inserts[id] <= 1)
    /\ [][\A n \in NodeRefs : C6_RegisterStep(n)]_vars

\* only id "A" is registered, by one insertion and one event, and the last
\* registration, of a node of that id, has been refused
C6_Witness ==
    /\ DOMAIN nodes = {"A"}
    /\ nodes["A"] = "n4"
    /\ regRet = [call |-> "RegisterNode", err |-> "AlreadyExists"]
    /\ inserts["A"] = 1
    /\ published["node_registered"] = 1

\* what the scan read of node id satisfies the requirements of the call
ObservedOk(id) ==
    /\ observed[id].status = StatusHealthy
    /\ requirements.Tags \subseteq ConfigTags(nodes[id])
    /\ requirements.AgentID # NoAgentID => requirements.AgentID \in observed[id].agents

\* C7: the node ScheduleTask dispatches to was Healthy when the scan read it,
\* carries every required tag, hosts the required agent if one is named, and
\* its load/capacity is no greater than that of any other node the scan found
\* Healthy and matching.
C7_LeastLoadedMatch ==
    schedPc = "dispatch" =>
        \E b \in DOMAIN observed :
            /\ nodes[b] = bestNode
            /\ ObservedOk(b)
            /\ \A m \in DOMAIN observed :
                  ObservedOk(m) =>
                      observed[b].load * Capacity <= observed[m].load * Capacity

\* A at 80/100, B at 50/100 and C at 10/100 all match and C is chosen
C7_Witness ==
    /\ schedPc = "dispatch"
    /\ DOMAIN observed = {"A", "B", "C"}
    /\ \A id \in DOMAIN observed : ObservedOk(id)
    /\ observed["A"].load = 80
    /\ observed["B"].load = 50
    /\ observed["C"].load = 10
    /\ requirements.Tags = {}
    /\ bestNode = "n3"
    /\ nodes["C"] = "n3"

\* C8: ScheduleTask fails with NoSuitableNode exactly when no node the scan
\* read was Healthy and matching, whatever the load of a matching node up to
\* load = capacity; the failing call invokes no agent and publishes no event.
C8_SelectsIffMatch ==
    /\ [](schedPc \in {"dispatch", "run", "done"} =>
            (schedRet = "NoSuitableNode" <=> ~ \E id \in DOMAIN observed : ObservedOk(id)))
    /\ [][schedRet' = "NoSuitableNode" /\ schedRet # "NoSuitableNode" =>
            agentCalls' = agentCalls /\ published' = published]_vars

(***************************************************************************)
(* Properties of the event system                                          *)
(***************************************************************************)
\* the registrations for the type of the event when EmitEvent began
RegisteredAtStart == SeqRange(regAtStart[emitType])

\* C11: EmitEvent invokes every handler that was registered for the event's
\* type when the call began exactly once and no other handler; it returns
\* only when all of them have returned, nil if and only if none returned an
\* error, and otherwise an error one of them returned.
C11_EmitEvent ==
    /\ emitPc \in {"running", "done"} =>
          \A h \in Registrations :
              calls[h] <= (IF h \in RegisteredAtStart THEN 1 ELSE 0)
    /\ emitPc = "done" =>
          /\ \A h \in RegisteredAtStart : calls[h] = 1 /\ hResult[h] # "none"
          /\ emitRet = Nil <=> \A h \in RegisteredAtStart : hResult[h] = Nil
          /\ emitRet # Nil => \E h \in RegisteredAtStart : hResult[h] = emitRet

\* two handlers of e1 and one of e2 were registered when the event of type e1
\* was emitted, a third of e1 came later; one handler failed
C11_Witness ==
    /\ emitPc = "done"
    /\ emitType = "e1"
    /\ regAtStart = [e1 |-> <<1, 2>>, e2 |-> <<3>>]
    /\ handlers["e1"] = <<1, 2, 4>>
    /\ calls = <<1, 1, 0, 0>>
    /\ hResult[1] = "errA"
    /\ hResult[2] = Nil
    /\ emitRet = "errA"

(***************************************************************************)
(* Properties of Retry                                                     *)
(***************************************************************************)
\* the number of times fn has been invoked
Invocations == Len(attemptErrs)

\* e is an error Retry is to retry under the configuration of the call
Retryable(e) ==
    e # Nil /\ (retryConfig.RetryableErrors # {} => e \in retryConfig.RetryableErrors)

\* C12: fn is invoked at most MaxAttempts times; when every attempt fails
\* with a retryable error and the context is not cancelled, it is invoked
\* exactly MaxAttempts times and the error of the last attempt is returned;
\* a successful attempt is the last one and Retry returns nil with it.
C12_AttemptsBounded ==
    /\ Invocations <= retryConfig.MaxAttempts
    /\ (/\ retryPc = "done"
        /\ ~retryCtxDone
        /\ \A i \in 1..Invocations : Retryable(attemptErrs[i]))
          => /\ Invocations = retryConfig.MaxAttempts
             /\ Invocations > 0 => retryRet = attemptErrs[Invocations]
    /\ \A i \in 1..Invocations :
          attemptErrs[i] = Nil =>
              i = Invocations /\ retryPc = "done" /\ retryRet = Nil

\* three attempts fail with retryable errors, the last error is returned
C12_Witness ==
    /\ retryPc = "done"
    /\ retryConfig.MaxAttempts = 3
    /\ attemptErrs = <<"errA", "errB", "errA">>
    /\ ~retryCtxDone
    /\ retryRet = "errA"

\* C13: with a non-empty RetryableErrors an error outside the list ends the
\* call at once, whatever the attempt: it is the value returned, no wait and
\* no invocation follows it.  With an empty list every error is retried.
C13_NonRetryableReturnsAtOnce ==
    /\ \A i \in 1..Invocations :
          (/\ attemptErrs[i] # Nil
           /\ retryConfig.RetryableErrors # {}
           /\ attemptErrs[i] \notin retryConfig.RetryableErrors)
             => /\ i = Invocations
                /\ retryPc = "done"
                /\ retryRet = attemptErrs[i]
                /\ Len(waits) = i - 1
    /\ (/\ retryPc = "done"
        /\ retryConfig.RetryableErrors = {}
        /\ ~retryCtxDone
        /\ Invocations > 0
        /\ attemptErrs[Invocations] # Nil)
          => Invocations = retryConfig.MaxAttempts

\* the second of three attempts fails with an error outside the list
C13_Witness ==
    /\ retryPc = "done"
    /\ retryConfig.MaxAttempts = 3
    /\ retryConfig.RetryableErrors = {"errA"}
    /\ attemptErrs = <<"errA", "errB">>
    /\ retryRet = "errB"
    /\ Len(waits) = 1

\* C14: the first wait is InitialDelay and every later wait is the previous
\* one times BackoffFactor, in whole time units, capped at MaxDelay; one wait
\* lies between two consecutive attempts and none follows the last.
C14_BackoffSchedule ==
    /\ \A k \in 1..Len(waits) :
          IF k = 1
          THEN waits[k] = retryConfig.InitialDelay
          ELSE LET scaled == (waits[k - 1] * retryConfig.BackoffFactor[1])
                                 \div retryConfig.BackoffFactor[2]
               IN waits[k] = IF scaled < retryConfig.MaxDelay
                             THEN scaled
                             ELSE retryConfig.MaxDelay
    /\ retryPc = "loop" => Len(waits) = Invocations
    /\ retryPc \in {"wait", "done"} /\ Invocations > 0 => Len(waits) = Invocations - 1
    /\ Invocations = 0 => waits = <<>>

\* three attempts with waits 1 and then 2, the doubled wait within the cap
C14_Witness ==
    /\ retryPc = "done"
    /\ retryConfig.InitialDelay = 1
    /\ retryConfig.BackoffFactor = <<2, 1>>
    /\ retryConfig.MaxDelay = 3
    /\ Invocations = 3
    /\ waits = <<1, 2>>

\* C15: a call cancelled during a backoff wait leaves the wait unfinished,
\* invokes fn no more and returns the error of the context.
C15_CancelDuringWait ==
    /\ [](cancelledIn = "wait" =>
            /\ retryPc \in {"wait", "done"}
            /\ Len(waits) = Invocations - 1
            /\ retryPc = "done" => retryRet = CtxErr)
    /\ [][cancelledIn = "wait" => attemptErrs' = attemptErrs /\ waits' = waits]_vars

\* cancelled in the wait after the first of three attempts
C15_Witness ==
    /\ cancelledIn = "wait"
    /\ retryPc = "done"
    /\ retryRet = CtxErr
    /\ retryConfig.MaxAttempts = 3
    /\ attemptErrs = <<"errA">>
    /\ waits = <<>>

(***************************************************************************)
(* Properties of the rate limiter                                          *)
(***************************************************************************)
\* a step in which Allow runs, called directly or by WaitN
AllowCalled == Allow \/ WaitNAllow

\* the tokens after the refill of an Allow call made now
RefillNow ==
    LET sum == tokens + elapsed * rate
    IN IF sum < bucketSize * TokenUnit THEN sum ELSE bucketSize * TokenUnit

\* C16: tokens stays within 0..bucketSize.  Every Allow sets tokens to
\* min(bucketSize, tokens + elapsed*rate) and lastRefill to now, and then
\* takes exactly one token and returns true if and only if at least one
\* token is there; otherwise it returns false and takes nothing.
C16_TokenBucket ==
    /\ [](tokens >= 0 /\ tokens <= bucketSize * TokenUnit)
    /\ [][AllowCalled =>
            /\ elapsed' = 0
            /\ tokens' = IF RefillNow >= TokenUnit
                         THEN RefillNow - TokenUnit
                         ELSE RefillNow
            /\ Allow => allowRet' = (RefillNow >= TokenUnit)
            /\ WaitNAllow =>
                  wnGranted' = wnGranted + (IF RefillNow >= TokenUnit THEN 1 ELSE 0)]_vars

\* an Allow call has refilled half a token, been refused and left it there
C16_Witness ==
    /\ allowRet = FALSE
    /\ elapsed = 0
    /\ tokens = 50
    /\ bucketSize = 1
    /\ allowCount = 2

\* C17: with rate 5 and bucket size 5 the first five Allow calls made with no
\* time passing return true, the sixth returns false, and a call made two
\* ticks (0.2 s) or more after it returns true.
C17_FiveThenRefuse ==
    [][(Allow /\ rate = 50 /\ bucketSize = 5 /\ wnPc = "idle" /\ immediate = allowCount) =>
          /\ elapsed = 0 /\ allowCount < 5 => allowRet' = TRUE
          /\ elapsed = 0 /\ allowCount = 5 => allowRet' = FALSE
          /\ elapsed >= 2 /\ allowCount = 6 => allowRet' = TRUE]_vars

\* six immediate calls, then a seventh 0.2 s later that is let through
C17_Witness ==
    /\ rate = 50
    /\ bucketSize = 5
    /\ wnPc = "idle"
    /\ immediate = 6
    /\ allowCount = 7
    /\ allowRet = TRUE
    /\ tokens = 0
    /\ elapsed = 0

\* C18: a WaitN whose context is cancelled while it waits, asleep between
\* two polls included, can return the context's error at once, without the
\* sleep running to its end, and takes no further token.
C18_CancelReturnsAtOnce ==
    /\ [](wnCtxDone /\ wnPc \in {"loop", "sleep"} /\ wnN > 0 => ENABLED WaitNCtxDone)
    /\ [][wnCtxDone => wnGranted' = wnGranted]_vars

\* C19: a WaitN(n) whose context is never cancelled eventually returns nil,
\* having consumed exactly n tokens, whatever the bucket size and the
\* (finitely many) Allow calls of other callers.
C19_WaitNTerminates ==
    (wnPc = "loop") ~>
        (wnCtxDone \/ (wnPc = "done" /\ wnRet = Nil /\ wnGranted = wnRequested))

(***************************************************************************)
(* Properties of the sequential workflow                                   *)
(***************************************************************************)
\* the output of the agents in order, each fed the output of the one before
RECURSIVE Pipeline(_, _)
Pipeline(list, x) ==
    IF list = <<>> THEN x ELSE Pipeline(Tail(list), AgentOutput(Head(list), x))

\* C20: Execute over one or more agents, with no agent failing and no
\* cancellation, invokes each agent once in the order of registration, the
\* first on the task of the call and each next one on the output of the one
\* before, and returns the output of the last with a nil error.
C20_SequentialPipeline ==
    (wfPc = "done" /\ ~wfCtxDone /\ ~wfFailed /\ Len(wfAgents) >= 1) =>
        /\ Len(invocations) = Len(wfAgents)
        /\ \A i \in 1..Len(wfAgents) :
              /\ invocations[i].agent = wfAgents[i]
              /\ invocations[i].input =
                    IF i = 1
                    THEN wfInput
                    ELSE AgentOutput(wfAgents[i - 1], invocations[i - 1].input)
        /\ wfRet = [result |-> Pipeline(wfAgents, wfInput), err |-> Nil]

\* over [A, B] and task x the result is B(A(x))
C20_Witness ==
    /\ wfPc = "done"
    /\ wfAgents = <<"A", "B">>
    /\ wfInput = <<"x">>
    /\ invocations = <<[agent |-> "A", input |-> <<"x">>],
                       [agent |-> "B", input |-> <<"x", "A">>]>>
    /\ wfRet = [result |-> <<"x", "A", "B">>, err |-> Nil]

\* C21: an Execute that returns an error returns the empty result; either
\* the agent at the position reached failed, the error is that agent's own
\* error and no agent after it was invoked, or the context was cancelled,
\* the error is the context's and no agent at or after the position reached
\* was invoked.
C21_AbortAtFirstFailure ==
    (wfPc = "done" /\ wfRet.err # Nil) =>
        /\ wfRet.result = EmptyString
        /\ \A i \in 1..Len(invocations) : invocations[i].agent = wfAgents[i]
        /\ \/ /\ wfFailed
              /\ wfRet.err = execErr
              /\ Len(invocations) = wfIdx
           \/ /\ ~wfFailed
              /\ wfCtxDone
              /\ wfRet.err = CtxErr
              /\ Len(invocations) = wfIdx - 1

\* over [A, B] and task x, A fails with errA and B is never invoked
C21_Witness ==
    /\ wfPc = "done"
    /\ wfAgents = <<"A", "B">>
    /\ invocations = <<[agent |-> "A", input |-> <<"x">>]>>
    /\ wfRet = [result |-> EmptyString, err |-> "errA"]

(***************************************************************************)
(* Properties of the mixture workflow                                      *)
(***************************************************************************)
\* the members whose agent returned an error
FailedMembers == {i \in DOMAIN memberErr : memberErr[i] \notin {Nil, "none"}}

\* member i was invoked exactly once, with the task of Execute
InvokedOnce(i) ==
    /\ Cardinality({k \in 1..Len(mxInvocations) : mxInvocations[k].index = i}) = 1
    /\ \A k \in 1..Len(mxInvocations) :
          mxInvocations[k].index = i => mxInvocations[k].input = mxTask

\* C22: an Execute that has returned with its context not cancelled invoked
\* every member agent exactly once with the task of the call; if a member
\* failed, every member has returned, the error returned is the failure of
\* one failing member and the aggregator was not invoked.
C22_MembersAllRun ==
    (mxPc = "done" /\ ~mxCtxDone) =>
        /\ Len(mxInvocations) = Len(mxAgents)
        /\ \A i \in 1..Len(mxAgents) : InvokedOnce(i)
        /\ FailedMembers # {} =>
              /\ WaitOver
              /\ \E i \in FailedMembers :
                    mxRet.err = Wrapped("agent %d failed", i - 1, memberErr[i])
              /\ aggregatorCalls = <<>>

\* every member's agent was invoked and returned without error
AllMembersSucceeded ==
    /\ mxAgents # <<>>
    /\ DOMAIN memberErr = 1..Len(mxAgents)
    /\ \A i \in DOMAIN memberErr : memberErr[i] = Nil

\* the members' outputs in the order of registration
MemberOutputs == [i \in 1..Len(mxAgents) |-> AgentOutput(mxAgents[i], mxTask)]

\* C23: an Execute that has returned and all of whose members succeeded
\* invoked the aggregator exactly once, after every member had returned, on
\* the members' outputs joined by newlines in the order of registration,
\* and returned the aggregator's output unless the aggregator failed.
C23_AggregatesInOrder ==
    (mxPc = "done" /\ AllMembersSucceeded) =>
        /\ WaitOver
        /\ Len(aggregatorCalls) = 1
        /\ aggregatorCalls[1] = stringSliceToString(MemberOutputs)
        /\ mxRet.err.wrap # "aggregation failed" =>
              mxRet = [result |-> AgentOutput(Aggregator, aggregatorCalls[1]),
                       err |-> NoError]

\* Execute leaves the wait and returns
ExecuteReturns == MixtureFail \/ \E e \in FnErrors : MixtureAggregate(e)

\* a member whose agent call has been made and has not returned
SomeMemberRunning == \E i \in DOMAIN mPc : mPc[i] = "running"

\* C24: once the context is cancelled while a member's agent is running,
\* Execute can return without that member having finished, and the
\* cancellation ends no member's agent call.
C24_CancelAbandonsWait ==
    /\ []((mxPc = "wait" /\ mxCtxDone /\ SomeMemberRunning) => ENABLED ExecuteReturns)
    /\ [][(~mxCtxDone /\ mxCtxDone') => mPc' = mPc]_vars

(***************************************************************************)
(* Properties of StateStore.Watch                                          *)
(***************************************************************************)
\* C25: the entry the key has when Watch is called is the first one sent on
\* the channel, and the versions of the entries sent on the channel are
\* strictly increasing, so that no entry is sent twice; every entry the
\* goroutine sends is the one it read from the key.
C25_WatchVersionsIncrease ==
    /\ [](initialEntry # NoEntry => emitted[1] = initialEntry)
    /\ [](\A i, j \in 1..Len(emitted) : i < j => emitted[i].Version < emitted[j].Version)
    /\ [][watchEntry' # watchEntry => watchEntry' = states[watchKey]]_vars
    /\ [][(emitted' # emitted /\ watchPc # "idle") => emitted' = Append(emitted, watchEntry)]_vars

\* C26: once the context of Watch is cancelled the goroutine eventually
\* returns and the channel is closed, with no step of the consumer needed.
C26_WatchTornDown ==
    watchCtxDone ~> (watchPc = "returned" /\ closed)

(***************************************************************************)
(* Properties of AgentServer.SyncState                                     *)
(***************************************************************************)
\* C27: a SyncState call that has returned reports success and the version
\* its own Set assigned, and the versions returned for one key are pairwise
\* distinct, concurrent calls included.
C27_SyncReturnsOwnVersion ==
    /\ \A c \in Callers :
          syncPc[c] = "done" => syncRet[c] = [Success |-> TRUE, Version |-> written[c]]
    /\ \A i, j \in 1..Len(syncLog) :
          (i < j /\ syncLog[i].Key = syncLog[j].Key) =>
              syncLog[i].Version # syncLog[j].Version

(***************************************************************************)
(* Properties of the heartbeat monitor                                     *)
(***************************************************************************)
\* the range of a tick has visited every node
TickComplete == monPc = "tick" /\ monToVisit = {} /\ monCur = "nil"

\* C28: when a tick has visited every registered node, it has published one
\* node_unhealthy event for each node it found with more than NodeTimeout
\* since lastPing and none for the others; the step that publishes the
\* event sets that node's status to Unhealthy, and a step of the monitor
\* changes no other status and sets none to Healthy.
C28_MonitorTick ==
    /\ [](TickComplete =>
            /\ DOMAIN monSeen = DOMAIN nodes
            /\ \A id \in DOMAIN nodes :
                  monMarked[id] = IF monSeen[id] > NodeTimeout THEN 1 ELSE 0)
    /\ [][MonitorStep =>
            \A n \in NodeRefs :
               \/ status'[n] = status[n]
               \/ /\ status'[n] = StatusUnhealthy
                  /\ monCur # "nil"
                  /\ n = nodes[monCur]
                  /\ monSeen[monCur] > NodeTimeout
                  /\ monMarked'[monCur] = monMarked[monCur] + 1]_vars
    /\ [][(MonitorStep /\ monCur # "nil") => status'[nodes[monCur]] = StatusUnhealthy]_vars

\* a tick that found node B timed out and node A within the timeout
C28_Witness ==
    /\ TickComplete
    /\ DOMAIN nodes = {"A", "B"}
    /\ monSeen["A"] <= NodeTimeout /\ monMarked["A"] = 0
    /\ monSeen["B"] > NodeTimeout /\ monMarked["B"] = 1
    /\ status[nodes["B"]] = StatusUnhealthy
    /\ status[nodes["A"]] # StatusUnhealthy

\* ScheduleTask line 104: node.ExecuteTask is called on the node selected
Dispatches == schedPc = "dispatch" /\ schedPc' # "dispatch"

\* C29: a status leaves Unhealthy for Healthy only by a step of
\* UpdateStatus on that node, taken with load/capacity at most 0.8; and no
\* ScheduleTask calls ExecuteTask on a node whose status is Unhealthy, that
\* is, one the monitor has marked and UpdateStatus has not yet refreshed.
C29_UnhealthyNotScheduled ==
    /\ [][\A n \in NodeRefs :
            (status[n] = StatusUnhealthy /\ status'[n] = StatusHealthy) =>
                (UpdateStatus(n) /\ load[n] * 5 <= Capacity * 4)]_vars
    /\ [][Dispatches => status[bestNode] # StatusUnhealthy]_vars

(***************************************************************************)
(* Properties of the node's load                                           *)
(***************************************************************************)
\* a step that returns from a RegisterAgent call
RegisterAgentReturns == agentRegs' = agentRegs + 1

\* C30: every node has 0 <= load <= capacity; a RegisterAgent call on a
\* node whose load has reached the capacity fails and leaves the agent maps
\* and the loads as they were; the load changes only in a RegisterAgent
\* call that succeeds in adding its agent, and then by 1 on one node.
C30_LoadWithinCapacity ==
    /\ [](\A n \in NodeRefs : 0 <= load[n] /\ load[n] <= Capacity)
    /\ [][\A n \in NodeRefs :
            (RegisterAgent(n, "a1", TRUE) \/ RegisterAgent(n, "a1", FALSE)) =>
                IF load[n] >= Capacity
                THEN /\ regRet'.err = "AtCapacity"
                     /\ load' = load
                     /\ agents' = agents
                ELSE load'[n] = load[n] + 1]_vars
    /\ [][load' # load =>
            /\ RegisterAgentReturns
            /\ regRet'.err # "AtCapacity"
            /\ \E n \in NodeRefs : load' = [load EXCEPT ![n] = @ + 1]]_vars

\* the node at 99 of 100 took one more agent and then refused the next
C30_Witness ==
    /\ load["n4"] = Capacity
    /\ agentRegs = 2
    /\ regRet = [call |-> "RegisterAgent", err |-> "AtCapacity"]

(***************************************************************************)
(* Properties of Node.ExecuteTask                                          *)
(***************************************************************************)
\* C31: an ExecuteTask for an agent the node does not have returns
\* AgentNotFound with no event published and no agent invoked; otherwise it
\* publishes task_start and goes on to invoke the agent, once, and that
\* invocation is followed by exactly one of task_complete and task_error.
C31_ExecuteTaskEvents ==
    /\ [][(schedPc = "dispatch" /\ schedPc' # "dispatch") =>
            IF requirements.AgentID \notin agents[bestNode]
            THEN /\ schedPc' = "done"
                 /\ schedRet' = "AgentNotFound"
                 /\ published' = published
                 /\ agentCalls' = agentCalls
            ELSE /\ schedPc' = "run"
                 /\ published' = Publish("task_start")
                 /\ agentCalls' = agentCalls]_vars
    /\ [][(schedPc = "run" /\ schedPc' # "run") =>
            /\ schedPc' = "done"
            /\ agentCalls' = agentCalls + 1
            /\ \/ published' = Publish("task_complete") /\ schedRet' = "result"
               \/ published' = Publish("task_error") /\ schedRet' = "ExecutionFailed"]_vars
    /\ [][agentCalls' # agentCalls => schedPc = "run"]_vars


(***************************************************************************)
(* Locks and the calls made under them                                     *)
(***************************************************************************)
\* a step in which the monitor publishes node_unhealthy for a node
PublishesUnhealthy ==
    \E id \in DOMAIN monMarked :
        /\ id \in DOMAIN monMarked'
        /\ monMarked'[id] = monMarked[id] + 1

\* C32: no component lock is held across a call into the communication
\* client: the heartbeat monitor has released the cluster lock before it
\* publishes node_unhealthy.
C32_NoLockAcrossCalls ==
    [][PublishesUnhealthy => ~MonitorHoldsLock /\ ~MonitorHoldsLock']_vars


\* the fields of the registered nodes that the monitor and the scheduler use
RegisteredFields ==
    [n \in {nodes[id] : id \in DOMAIN nodes} |->
        <<status[n], load[n], lastPing[n]>>]

\* C33: every write to a registered node's status, load or lastPing is made
\* with the cluster lock held: while the heartbeat monitor holds the lock
\* for a tick, these fields change only by the monitor's own write.
C33_WritesUnderClusterLock ==
    [][(MonitorHoldsLock /\ MonitorHoldsLock'
            /\ DOMAIN nodes' = DOMAIN nodes
            /\ RegisteredFields' # RegisteredFields)
        => PublishesUnhealthy]_vars


(***************************************************************************)
(* Cluster.Close and the heartbeat monitor                                 *)
(***************************************************************************)
\* C34: the monitor observes shutdown: once Close has returned the monitor
\* goroutine eventually returns, and a monitor that has returned stays so,
\* changes no node's status and publishes no node_unhealthy event.
C34_MonitorObservesShutdown ==
    /\ connClosed ~> MonitorReturned
    /\ [][MonitorReturned =>
            MonitorReturned' /\ status' = status /\ ~PublishesUnhealthy]_vars


(***************************************************************************)
(* Message bus: closed channels                                            *)
(***************************************************************************)
\* C35: no sequence of StreamEvents calls, disconnects and publications is
\* fatal to the process: the channel a Publish is about to send on is open,
\* and no Publish has panicked.
C35_NoSendOnClosedChannel ==
    /\ ~panicked
    /\ \A p \in Publishers : InLoop(p) => ~chanClosed[CurChan(p)]


(***************************************************************************)
(* Circuit breaker: the failure counter                                    *)
(***************************************************************************)
\* a RecordResult (direct or inside Execute) of a success, of a failure
RecordsSuccess == records' = records + 1 /\ lastRecorded' = Nil
RecordsFailure == records' = records + 1 /\ lastRecorded' # Nil

\* C36: failureCount is lowered only by the reset to 0 on HalfOpen->Closed;
\* a success recorded while Closed leaves it unchanged; every recorded
\* failure adds one and the breaker is Open as soon as the count has
\* reached failureThreshold, so a Closed breaker is always below it.
C36_FailureCountKept ==
    /\ [](state = StateClosed => failureCount < failureThreshold)
    /\ [][failureCount' < failureCount =>
            state = StateHalfOpen /\ state' = StateClosed /\ failureCount' = 0]_vars
    /\ [][(RecordsSuccess /\ state = StateClosed) =>
            failureCount' = failureCount /\ state' = StateClosed]_vars
    /\ [][RecordsFailure =>
            /\ failureCount' = failureCount + 1
            /\ failureCount' >= failureThreshold => state' = StateOpen]_vars

\* three failures and one success, none after the last failure, have been
\* recorded on a breaker of threshold 3, which is Open at count 3
C36_Witness ==
    /\ failureThreshold = 3
    /\ records = 4
    /\ lastRecorded # Nil
    /\ failureCount = 3
    /\ state = StateOpen


(***************************************************************************)
(* Cluster.RegisterNode: failure                                           *)
(***************************************************************************)
\* C37: a RegisterNode that returns an error leaves the registry as it was:
\* the registry changes only in a RegisterNode step that returns nil.
C37_RegisterNodeAllOrNothing ==
    [][nodes' # nodes => regRet'.call = "RegisterNode" /\ regRet'.err = Nil]_vars


(***************************************************************************)
(* ScheduleTask without an agent id                                        *)
(***************************************************************************)
\* the scan visits node id, which is Healthy, carries the required tags and
\* has a lower load factor than the best node so far
ScansEligible(id) ==
    /\ schedPc = "scan"
    /\ id \in toVisit
    /\ toVisit' = toVisit \ {id}
    /\ status[nodes[id]] = StatusHealthy
    /\ requirements.Tags \subseteq ConfigTags(nodes[id])
    /\ BetterThanBest(nodes[id])

\* C38: with an empty AgentID the selection does not look at the agents a
\* node hosts, and the chosen node is asked to execute under the empty id:
\* without an agent of that name the call returns AgentNotFound with no
\* event published and no agent invoked, and a call that returned a result
\* ran on a node that has an agent registered under the empty name.
C38_EmptyAgentID ==
    /\ [][\A id \in NodeIds :
            (requirements.AgentID = NoAgentID /\ ScansEligible(id))
                => bestNode' = nodes[id]]_vars
    /\ [][(requirements.AgentID = NoAgentID
             /\ schedPc = "dispatch" /\ schedPc' # "dispatch") =>
            IF NoAgentID \in agents[bestNode]
            THEN published' = Publish("task_start")
            ELSE /\ schedPc' = "done"
                 /\ schedRet' = "AgentNotFound"
                 /\ published' = published
                 /\ agentCalls' = agentCalls]_vars
    /\ []((requirements.AgentID = NoAgentID /\ schedPc \in {"run", "done"}
             /\ schedRet # "AgentNotFound" /\ schedRet # "NoSuitableNode")
            => NoAgentID \in agents[bestNode])

\* a task without an agent id has returned a result from a node that has
\* an agent registered under the empty name
C38_Witness ==
    /\ schedPc = "done"
    /\ requirements.AgentID = NoAgentID
    /\ schedRet = "result"
    /\ NoAgentID \in agents[bestNode]
    /\ agentCalls = 1


(***************************************************************************)
(* Retry without attempts                                                  *)
(***************************************************************************)
\* C39: a Retry with MaxAttempts <= 0 never invokes fn, waits for nothing
\* and returns nil, whatever the context and the rest of the configuration.
C39_NoAttemptsReturnsNil ==
    (retryPc # "idle" /\ retryConfig.MaxAttempts <= 0) =>
        /\ attemptErrs = <<>>
        /\ waits = <<>>
        /\ retryPc \in {"loop", "done"}
        /\ retryPc = "done" => retryRet = Nil

\* a call with MaxAttempts -1, a list of retryable errors and a cancelled
\* context has returned
C39_Witness ==
    /\ retryPc = "done"
    /\ retryConfig.MaxAttempts = -1
    /\ retryConfig.RetryableErrors # {}
    /\ retryConfig.InitialDelay > 0
    /\ retryCtxDone
    /\ retryRet = Nil


(***************************************************************************)
(* Node: load and the agent map                                            *)
(***************************************************************************)
\* len(n.agents): the agents the node was handed over with and the ones
\* registered since
AgentCount(n) == InitialLoad(n) + Cardinality(agents[n])

\* C40: a node's load equals the number of agents in its agent map.
C40_LoadIsAgentCount ==
    \A n \in NodeRefs : load[n] = AgentCount(n)

====
